---------------------------- MODULE Spec2Model ----------------------------
(***************************************************************************)
(* A model of the trusted-setup readers of gnark-mpc-kzg-srs:              *)
(*   format A  aztec.TranslateBn254SRS     (src/unnamed/part_000)          *)
(*   format B  aleo.TranslateBls12377SRS   (src/unnamed/part_002)          *)
(*   format C  celo.TranslateBw6761SRS     (src/celo/bw6761.go)            *)
(*   format A  main.ConstructSRS           (src/main.go)                   *)
(*                                                                         *)
(* Files are flat byte sequences read through a file position, exactly as  *)
(* the Go code reads them.  Field arithmetic is scaled down: a byte takes  *)
(* a value in 0..ByteBase-1 (256 in the code), a coordinate takes fewer    *)
(* bytes than in the code and the field moduli are small.  Every size that *)
(* is scaled is a named bound below; the counts the code fixes itself      *)
(* (7 header fields of 4 bytes, 4 words, 8 count bytes, 64 hash bytes,     *)
(* 256 chunks) keep their value.                                           *)
(***************************************************************************)
EXTENDS Integers, Sequences, FiniteSets, TLC

(***************************************************************************)
(* Bounds (scaled sizes and the size of the input sets).                   *)
(***************************************************************************)
\* Number of values of one byte (256 in the code).
ByteBase == 2
\* Bytes of one word of a format A field element (8 in the code).
WordSize == 2
\* Bytes of one format B field element (48 in the code).
Fp48Size == 4
\* Bytes of one format C field element (96 in the code).
PointCoordinateSize == 4
\* The moduli of the three base fields, scaled down.
BnModulus == 47
BlsModulus == 13
BwModulus == 13
\* Largest number of files in a format A or format B directory.
MaxFiles == 3

(***************************************************************************)
(* Program constants.                                                      *)
(***************************************************************************)
Int32Size == 4
NumMetadataFields == 7
NumWords == 4
CountSize == 8
HashSize == 64
TotalChunks == 256
ChunkHalfwayPoint == 128

Fp32Size == NumWords * WordSize
MetadataSize == NumMetadataFields * Int32Size
\* io.CopyN(io.Discard, r, 128): one bn254 G2 point, four field elements.
G2SkipSize == 4 * Fp32Size
G1PointSize == 2 * PointCoordinateSize
G2PointSize == 2 * PointCoordinateSize

Nil == "nil"
EOF == "EOF"
ErrUnexpectedEOF == "unexpected EOF"

(***************************************************************************)
(* Bytes and integers.                                                     *)
(***************************************************************************)
Byte == 0 .. (ByteBase - 1)

RECURSIVE Pow(_, _)
Pow(b, e) == IF e = 0 THEN 1 ELSE b * Pow(b, e - 1)

\* binary.BigEndian / big.Int.SetBytes: first byte most significant.
RECURSIVE BigEndianValue(_)
BigEndianValue(b) ==
    IF Len(b) = 0 THEN 0
    ELSE BigEndianValue(SubSeq(b, 1, Len(b) - 1)) * ByteBase + b[Len(b)]

\* binary.LittleEndian / fp.LittleEndian: first byte least significant.
RECURSIVE LittleEndianValue(_)
LittleEndianValue(b) ==
    IF Len(b) = 0 THEN 0
    ELSE b[1] + ByteBase * LittleEndianValue(SubSeq(b, 2, Len(b)))

\* A big-endian int32 of the metadata header (two's complement).
Int32BE(b) ==
    LET u == BigEndianValue(b)
        half == Pow(ByteBase, Int32Size) \div 2
    IN  IF u >= half THEN u - Pow(ByteBase, Int32Size) ELSE u

(***************************************************************************)
(* io.ReadFull on a file's bytes from position pos: n bytes, or EOF when   *)
(* none is left, or ErrUnexpectedEOF when fewer than n are left (the       *)
(* position then stands at the end of the file).                           *)
(***************************************************************************)
ReadFull(data, pos, n) ==
    IF pos + n <= Len(data)
    THEN [err |-> Nil, buf |-> SubSeq(data, pos + 1, pos + n), pos |-> pos + n]
    ELSE IF pos >= Len(data)
         THEN [err |-> EOF, buf |-> <<>>, pos |-> pos]
         ELSE [err |-> ErrUnexpectedEOF, buf |-> <<>>, pos |-> Len(data)]

(***************************************************************************)
(* Field-element decoders.                                                 *)
(***************************************************************************)
\* A faulty variant of Reordered: the whole block byte by byte in reverse.
ReversedBytes(buf) == [j \in 1 .. Len(buf) |-> buf[Len(buf) + 1 - j]]

\* part_000 lines 149-152: the 8-byte words in reverse order, the bytes of a
\* word in place.
Reordered(buf) ==
    [j \in 1 .. Fp32Size |->
        buf[(NumWords - 1 - ((j - 1) \div WordSize)) * WordSize
            + ((j - 1) % WordSize) + 1]]

\* fp.Element.SetBytes: the bytes as a big-endian integer, reduced modulo
\* the field prime; it has no error result.
SetBytes(b) == BigEndianValue(b) % BnModulus

\* fp.LittleEndian.Element: the bytes as a little-endian integer; an error
\* when the integer is not smaller than the modulus.
LittleEndianElement(b, modulus) ==
    IF LittleEndianValue(b) >= modulus
    THEN [err |-> "invalid fp.Element encoding", val |-> 0]
    ELSE [err |-> Nil, val |-> LittleEndianValue(b)]

\* aztec.extract32ByteFieldElement on the bytes of a file from pos.
extract32ByteFieldElement(data, pos) ==
    LET rd == ReadFull(data, pos, Fp32Size)
    IN  IF rd.err # Nil
        THEN [err |-> rd.err, val |-> 0, pos |-> rd.pos]
        ELSE [err |-> Nil, val |-> SetBytes(Reordered(rd.buf)), pos |-> rd.pos]

\* aleo.extract48ByteFieldElement on the bytes of a file from pos.
extract48ByteFieldElement(data, pos) ==
    LET rd == ReadFull(data, pos, Fp48Size)
    IN  IF rd.err # Nil
        THEN [err |-> rd.err, val |-> 0, pos |-> rd.pos]
        ELSE LET e == LittleEndianElement(rd.buf, BlsModulus)
             IN  [err |-> e.err, val |-> e.val, pos |-> rd.pos]

\* celo.extractBw6FieldElement on a slice of the point buffer.
extractBw6FieldElement(data) ==
    IF Len(data) # PointCoordinateSize
    THEN [err |-> "expected PointCoordinateSize bytes", val |-> 0]
    ELSE LittleEndianElement(data, BwModulus)


(***************************************************************************)
(* Curve points.  A G1 point is [X, Y]; a G2 point of formats A and B has  *)
(* coordinates in the quadratic extension, [A0, A1]; a G2 point of format  *)
(* C (BW6-761) has coordinates in the base field.                          *)
(***************************************************************************)
G1Affine(x, y) == [X |-> x, Y |-> y]
E2(a0, a1) == [A0 |-> a0, A1 |-> a1]
G2Affine(x, y) == [X |-> x, Y |-> y]

\* The zero value of a Go point struct.
ZeroG1 == G1Affine(0, 0)
ZeroG2(rdr) ==
    IF rdr = "C" THEN G2Affine(0, 0) ELSE G2Affine(E2(0, 0), E2(0, 0))

\* bn254.Generators(), bls12377.Generators(), bw6761.Generators().
Gen1(rdr) ==
    CASE rdr \in {"A", "Main"} -> G1Affine(1, 2)
      [] rdr = "B" -> G1Affine(2, 3)
      [] OTHER     -> G1Affine(1, 0)
Gen2(rdr) ==
    CASE rdr \in {"A", "Main"} -> G2Affine(E2(1, 2), E2(3, 4))
      [] rdr = "B" -> G2Affine(E2(2, 3), E2(4, 5))
      [] OTHER     -> G2Affine(0, 2)

\* bw6761 G1Affine.IsInfinity / G2Affine.IsInfinity.
IsInfinity(p) == p.X = 0 /\ p.Y = 0

\* bw6761 G1Affine.IsOnCurve: Y^2 = X^3 - 1, the point at infinity included.
IsOnCurveG1(p) ==
    \/ IsInfinity(p)
    \/ (p.Y * p.Y) % BwModulus
         = (((p.X * p.X) % BwModulus) * p.X + BwModulus - 1) % BwModulus

\* bw6761 G2Affine.IsOnCurve: Y^2 = X^3 + 4, the point at infinity included.
IsOnCurveG2(p) ==
    \/ IsInfinity(p)
    \/ (p.Y * p.Y) % BwModulus
         = (((p.X * p.X) % BwModulus) * p.X + 4) % BwModulus

\* PrecomputeLines(Q): the line data of Q, kept as the point it came from.
PrecomputeLines(q) == <<q>>
NoLines == <<>>

\* A faulty variant of NewSRS: no reader seeds the G1 sequence.
NewSRSUnseeded(rdr) ==
    [nil |-> FALSE, PkG1 |-> <<>>, VkG1 |-> Gen1(rdr),
     G2 |-> <<Gen2(rdr), ZeroG2(rdr)>>, Lines |-> <<NoLines, NoLines>>]

\* new(kzg.SRS) followed by the assignments of the generators; Pk.G1 is
\* make([]G1Affine, 1) with the generator in formats A and B, and
\* make([]G1Affine, 0) in format C.
NewSRS(rdr) ==
    [nil   |-> FALSE,
     PkG1  |-> IF rdr = "C" THEN <<>> ELSE <<Gen1(rdr)>>,
     VkG1  |-> Gen1(rdr),
     G2    |-> <<Gen2(rdr), ZeroG2(rdr)>>,
     Lines |-> <<NoLines, NoLines>>]

\* A nil *kzg.SRS.
NilSRS(rdr) ==
    [nil   |-> TRUE,
     PkG1  |-> <<>>,
     VkG1  |-> ZeroG1,
     G2    |-> <<ZeroG2(rdr), ZeroG2(rdr)>>,
     Lines |-> <<NoLines, NoLines>>]

(***************************************************************************)
(* Input files.  The encoders build the bytes of the sample files; the     *)
(* readers below see only the bytes.                                       *)
(***************************************************************************)
RECURSIVE EncodeBE(_, _)
EncodeBE(v, size) ==
    IF size = 0 THEN <<>>
    ELSE Append(EncodeBE(v \div ByteBase, size - 1), v % ByteBase)

RECURSIVE EncodeLE(_, _)
EncodeLE(v, size) ==
    IF size = 0 THEN <<>>
    ELSE <<v % ByteBase>> \o EncodeLE(v \div ByteBase, size - 1)

EncodeInt32(v) ==
    EncodeBE(IF v < 0 THEN v + Pow(ByteBase, Int32Size) ELSE v, Int32Size)

RECURSIVE Flatten(_)
Flatten(ss) == IF Len(ss) = 0 THEN <<>> ELSE Head(ss) \o Flatten(Tail(ss))

Ones(size) == [j \in 1 .. size |-> ByteBase - 1]
Zeros(size) == [j \in 1 .. size |-> 0]

\* A format A coordinate block that decodes to v, and a G1 point.
Block32(v) == Reordered(EncodeBE(v, Fp32Size))
PointA(x, y) == Block32(x) \o Block32(y)
\* A format A G2 region: the point that is skipped, then X.A0 X.A1 Y.A0 Y.A1.
G2RegionA(v) ==
    Zeros(G2SkipSize) \o Block32(v) \o Block32(v + 1)
        \o Block32(v + 2) \o Block32(v + 3)

\* The 7 header fields in file order.
HeaderA(tn, total, g1n, g2n, start) ==
    Flatten(<<EncodeInt32(tn), EncodeInt32(total), EncodeInt32(6),
              EncodeInt32(1), EncodeInt32(g1n), EncodeInt32(g2n),
              EncodeInt32(start)>>)

FileRec(perm, data) == [perm |-> perm, data |-> data]

\* The sample transcript files of format A.
SampleA(kind) ==
    CASE kind = "first"    ->
           FileRec(TRUE, HeaderA(0, 3, 2, 2, 0) \o PointA(3, 4) \o PointA(5, 6)
                           \o G2RegionA(7) \o Zeros(3))
      [] kind = "next"     ->
           FileRec(TRUE, HeaderA(1, 3, 1, 0, 2) \o PointA(8, 9))
      [] kind = "empty"    ->
           FileRec(TRUE, HeaderA(2, 3, 0, 0, 3))
      [] kind = "second_g2" ->
           FileRec(TRUE, HeaderA(1, 3, 1, 1, 2) \o PointA(10, 11)
                           \o G2RegionA(20))
      [] kind = "short_g1" ->
           FileRec(TRUE, HeaderA(1, 3, 2, 0, 2) \o PointA(12, 13)
                           \o SubSeq(Block32(14), 1, Fp32Size - 1))
      [] kind = "negative" ->
           FileRec(TRUE, HeaderA(2, 3, -1, 0, 3) \o PointA(15, 16))
      [] kind = "over_modulus" ->
           FileRec(TRUE, HeaderA(1, 3, 1, 0, 2) \o Ones(Fp32Size) \o Block32(1))
      [] kind = "short_header" ->
           FileRec(TRUE, SubSeq(HeaderA(0, 3, 1, 0, 0), 1, MetadataSize - 1))
      [] kind = "short_g2" ->
           FileRec(TRUE, HeaderA(0, 3, 0, 2, 0) \o Zeros(G2SkipSize)
                           \o Block32(7))
      [] OTHER             ->
           FileRec(FALSE, <<>>)

KindsA ==
    {"first", "next", "empty", "second_g2", "short_g1", "negative",
     "over_modulus", "short_header", "short_g2", "unreadable"}

\* A directory path that does not exist.
NoDir == <<"no such directory">>

RECURSIVE SeqsUpTo(_, _)
SeqsUpTo(S, n) ==
    IF n = 0 THEN {<<>>}
    ELSE LET shorter == SeqsUpTo(S, n - 1)
         IN  shorter \cup {Append(s, x) : s \in shorter, x \in S}

\* The format A directories: up to MaxFiles sample files, named t0, t1, ...
\* in listing order; two directories of the 20 files a run expects, one
\* with the transcripts 0, 1 and 2 and one with transcript 1 alone; and a
\* path that does not exist.
DirsA ==
    SeqsUpTo(KindsA, MaxFiles)
    \cup {[j \in 1 .. 20 |-> IF j = 1 THEN "first"
                             ELSE IF j = 2 THEN "next" ELSE "empty"],
          [j \in 1 .. 20 |-> "next"]}
    \cup {NoDir}

NameA(j) == <<116, 48 + j>>

ListingA(d) == [j \in 1 .. Len(d) |-> NameA(j - 1)]
FileA(d, name) == SampleA(d[name[2] - 48 + 1])

(***************************************************************************)
(* State.                                                                  *)
(***************************************************************************)
VARIABLES
    reader,      \* "A", "B" or "C": the Translate function that runs
                 \* ("Main": ConstructSRS of src/main.go)
    setupDir,    \* its argument: the directory it reads
    pc,          \* where the run stands
    files,       \* files: the names os.ReadDir returned (sorted in format B)
    chunkFiles,  \* format C: chunk number (its numeral) -> chosen file name
    k,           \* the file loop's index (format C: chunkNum)
    open,        \* names of the files that are open
    fd,          \* file: the name of the file being read, or NoFile
    pos,         \* its read position
    meta,        \* format A: the metadata header of the file being read
    n,           \* number of G1 points the current file is to give
    i,           \* the point loop's counter
    srs,         \* the SRS under construction (nil before new(SRS))
    ret,         \* the values returned by Translate (done: it has returned)
    err,         \* the error of the last per-file function that returned
    failed,      \* names of the files whose per-file function returned an error
    g2Writes,    \* number of assignments to srs.Vk.G2[1] so far
    log,         \* warnings printed so far
    buf,         \* decoder check: the coordinate block given to a decoder
    elem         \* decoder check: what the decoder returned

vars == <<reader, setupDir, pc, files, chunkFiles, k, open, fd, pos, meta, n,
          i, srs, ret, err, failed, g2Writes, log, buf, elem>>

runVars == <<files, chunkFiles, k, open, fd, pos, meta, n, i, srs, ret, err,
             failed, g2Writes, log>>

NoMeta == [TranscriptN |-> 0, TotalTranscriptsN |-> 0, TotalG1PointsN |-> 0,
           TotalG2PointsN |-> 0, G1PointsN |-> 0, G2PointsN |-> 0,
           StartFrom |-> 0]

NoFile == <<>>
NoElem == [err |-> Nil, val |-> 0]
\* Translate has not returned yet.
Running(rdr) == [done |-> FALSE, srs |-> NilSRS(rdr), n |-> 0, err |-> Nil]

\* Entry of a Translate function on directory d.
InitRun(rdr, d) ==
    /\ reader = rdr
    /\ setupDir = d
    /\ pc = "start"
    /\ files = <<>>
    /\ chunkFiles = <<>>
    /\ k = 0
    /\ open = {}
    /\ fd = NoFile
    /\ pos = 0
    /\ meta = NoMeta
    /\ n = 0
    /\ i = 0
    /\ srs = NilSRS(rdr)
    /\ ret = Running(rdr)
    /\ err = Nil
    /\ failed = {}
    /\ g2Writes = 0
    /\ log = {}
    /\ buf = <<>>
    /\ elem = NoElem

\* return nil, 0, fmt.Errorf(...)
ReturnError(rdr, e) ==
    [done |-> TRUE, srs |-> NilSRS(rdr), n |-> 0, err |-> e]
\* return srs, len(srs.Pk.G1), nil
ReturnSRS(s) == [done |-> TRUE, srs |-> s, n |-> Len(s.PkG1), err |-> Nil]

\* A faulty variant of AppendG1: only the first point of the files is kept.
AppendG1Once(s, point) ==
    [s EXCEPT !.PkG1 = IF Len(@) < 2 THEN Append(@, point) ELSE @]

\* srs.Pk.G1 = append(srs.Pk.G1, point)
AppendG1(s, point) == [s EXCEPT !.PkG1 = Append(@, point)]
\* srs.Vk.G2[1] = point
SetG2(s, point) == [s EXCEPT !.G2[2] = point]

(***************************************************************************)
(* Format A: aztec.TranslateBn254SRS.                                      *)
(***************************************************************************)
\* readMetadata: binary.Read of the 7 int32 fields, big-endian.
readMetadata(data, at) ==
    LET rd == ReadFull(data, at, MetadataSize)
        f(j) == Int32BE(SubSeq(rd.buf, (j - 1) * Int32Size + 1, j * Int32Size))
    IN  IF rd.err # Nil
        THEN [err |-> rd.err, metadata |-> NoMeta, pos |-> rd.pos]
        ELSE [err |-> Nil,
              metadata |-> [TranscriptN |-> f(1), TotalTranscriptsN |-> f(2),
                            TotalG1PointsN |-> f(3), TotalG2PointsN |-> f(4),
                            G1PointsN |-> f(5), G2PointsN |-> f(6),
                            StartFrom |-> f(7)],
              pos |-> rd.pos]

\* part_000 line 76: the loop of aztec.readG1Points goes on.
MorePointsA(turn, count) == turn < count

\* One turn of the loop of aztec.readG1Points: the point read at position at.
readG1PointA(data, at) ==
    LET x == extract32ByteFieldElement(data, at)
        y == extract32ByteFieldElement(data, x.pos)
    IN  IF x.err # Nil THEN [err |-> "failed to read x-coordinate",
                             point |-> ZeroG1, pos |-> x.pos]
        ELSE IF y.err # Nil THEN [err |-> "failed to read y-coordinate",
                                  point |-> ZeroG1, pos |-> y.pos]
        ELSE [err |-> Nil, point |-> G1Affine(x.val, y.val), pos |-> y.pos]

\* aztec.readG2Points from position at: 128 bytes skipped, then X.A0, X.A1,
\* Y.A0, Y.A1.
readG2PointsA(data, at) ==
    LET skip == ReadFull(data, at, G2SkipSize)
        x1 == extract32ByteFieldElement(data, skip.pos)
        x2 == extract32ByteFieldElement(data, x1.pos)
        y1 == extract32ByteFieldElement(data, x2.pos)
        y2 == extract32ByteFieldElement(data, y1.pos)
        bad(e) == [err |-> e, point |-> ZeroG2("A"), pos |-> at]
    IN  IF skip.err # Nil THEN bad("failed to skip the first G2 point")
        ELSE IF x1.err # Nil THEN bad("failed to read x-coordinate c0")
        ELSE IF x2.err # Nil THEN bad("failed to read x-coordinate c1")
        ELSE IF y1.err # Nil THEN bad("failed to read y-coordinate c0")
        ELSE IF y2.err # Nil THEN bad("failed to read y-coordinate c1")
        ELSE [err |-> Nil,
              point |-> G2Affine(E2(x1.val, x2.val), E2(y1.val, y2.val)),
              pos |-> y2.pos]

\* Lines 161-175: os.ReadDir, the new SRS with the generators, the loop's
\* first turn.
AStart ==
    /\ reader = "A" /\ pc = "start"
    /\ IF setupDir = NoDir
       THEN /\ ret' = ReturnError(reader, "failed to read setup directory")
            /\ pc' = "done"
            /\ UNCHANGED <<files, srs>>
       ELSE /\ files' = ListingA(setupDir)
            /\ srs' = NewSRS("A")
            /\ pc' = IF Len(setupDir) = 0 THEN "lines" ELSE "open"
            /\ ret' = ret
    /\ k' = 1
    /\ UNCHANGED <<reader, setupDir, chunkFiles, open, fd, pos, meta, n, i,
                   err, failed, g2Writes, log, buf, elem>>

\* A faulty variant of FileFails: the file is left open on the error path.
FileFailsLeaving(e) ==
    /\ open' = open
    /\ fd' = NoFile
    /\ err' = e
    /\ failed' = failed \cup {files[k]}
    /\ ret' = ReturnError(reader, "failed to read setup file")
    /\ pc' = "done"

\* A per-file function of format A or B returns error e: the deferred Close
\* runs, and Translate returns nil, 0 and the wrapped error.
FileFails(e) ==
    /\ open' = open \ {fd}
    /\ fd' = NoFile
    /\ err' = e
    /\ failed' = failed \cup {files[k]}
    /\ ret' = ReturnError(reader, "failed to read setup file")
    /\ pc' = "done"

\* A per-file function of format A or B returns nil: the deferred Close
\* runs, and the loop goes to the next file or ends.
FileDone ==
    /\ open' = open \ {fd}
    /\ fd' = NoFile
    /\ err' = Nil
    /\ k' = k + 1
    /\ pc' = IF k + 1 > Len(files) THEN "lines" ELSE "open"

\* readTranscriptFile lines 47-51: os.Open.
AOpen ==
    /\ reader = "A" /\ pc = "open"
    /\ IF FileA(setupDir, files[k]).perm
       THEN /\ open' = open \cup {files[k]}
            /\ fd' = files[k]
            /\ pos' = 0
            /\ pc' = "meta"
            /\ UNCHANGED <<err, failed, ret>>
       ELSE /\ err' = "open"
            /\ failed' = failed \cup {files[k]}
            /\ ret' = ReturnError(reader, "failed to read setup file")
            /\ pc' = "done"
            /\ UNCHANGED <<open, fd, pos>>
    /\ UNCHANGED <<reader, setupDir, files, chunkFiles, k, meta, n, i, srs,
                   g2Writes, log, buf, elem>>

\* readTranscriptFile lines 53-56: the metadata header; then the loop of
\* readG1Points is entered with n = int(metadata.G1PointsN).
AReadMetadata ==
    /\ reader = "A" /\ pc = "meta"
    /\ LET m == readMetadata(FileA(setupDir, fd).data, pos)
       IN  IF m.err # Nil
           THEN /\ FileFails("failed to read metadata")
                /\ UNCHANGED <<k, pos, meta, n, i>>
           ELSE /\ meta' = m.metadata
                /\ pos' = m.pos
                /\ n' = m.metadata.G1PointsN
                /\ i' = 0
                /\ pc' = IF MorePointsA(0, m.metadata.G1PointsN)
                         THEN "g1" ELSE "post"
                /\ UNCHANGED <<k, open, fd, err, failed, ret>>
    /\ UNCHANGED <<reader, setupDir, files, chunkFiles, srs, g2Writes, log,
                   buf, elem>>

\* readG1Points lines 76-97: one turn of the loop.
AReadG1Point ==
    /\ reader = "A" /\ pc = "g1"
    /\ LET p == readG1PointA(FileA(setupDir, fd).data, pos)
       IN  IF p.err # Nil
           THEN /\ FileFails("failed to read G1 points")
                /\ UNCHANGED <<k, pos, i, srs>>
           ELSE /\ srs' = AppendG1(srs, p.point)
                /\ pos' = p.pos
                /\ i' = i + 1
                /\ pc' = IF MorePointsA(i + 1, n) THEN "g1" ELSE "post"
                /\ UNCHANGED <<k, open, fd, err, failed, ret>>
    /\ UNCHANGED <<reader, setupDir, files, chunkFiles, meta, n, g2Writes,
                   log, buf, elem>>

\* readTranscriptFile lines 62-70: the G2 points when the header announces
\* any, then the return; TranslateBn254SRS lines 184-185.
AReadG2Points ==
    /\ reader = "A" /\ pc = "post"
    /\ IF meta.G2PointsN # 0
       THEN LET q == readG2PointsA(FileA(setupDir, fd).data, pos)
            IN  IF q.err # Nil
                THEN /\ FileFails("failed to read G2 points")
                     /\ UNCHANGED <<k, pos, srs, g2Writes>>
                ELSE /\ srs' = SetG2(srs, q.point)
                     /\ g2Writes' = g2Writes + 1
                     /\ pos' = q.pos
                     /\ FileDone
                     /\ UNCHANGED <<failed, ret>>
       ELSE /\ FileDone
            /\ UNCHANGED <<pos, srs, g2Writes, failed, ret>>
    /\ UNCHANGED <<reader, setupDir, files, chunkFiles, meta, n, i, log, buf,
                   elem>>

\* TranslateBn254SRS lines 188-196: the warning, the lines, the return.
ALines ==
    /\ reader = "A" /\ pc = "lines"
    /\ log' = IF Len(files) # 20
              THEN log \cup {"WARNING: expected 20 setup files"} ELSE log
    /\ srs' = [srs EXCEPT !.Lines = <<PrecomputeLines(srs.G2[1]),
                                      PrecomputeLines(srs.G2[2])>>]
    /\ ret' = ReturnSRS(srs')
    /\ pc' = "done"
    /\ UNCHANGED <<reader, setupDir, files, chunkFiles, k, open, fd, pos, meta,
                   n, i, err, failed, g2Writes, buf, elem>>

InitA == \E d \in DirsA : InitRun("A", d)
NextA == AStart \/ AOpen \/ AReadMetadata \/ AReadG1Point \/ AReadG2Points
            \/ ALines
SpecA == InitA /\ [][NextA]_vars

(***************************************************************************)
(* File names are sequences of character codes ("." is 46, "0" is 48,      *)
(* "A" is 65, "a" is 97).                                                  *)
(***************************************************************************)
\* strings.Compare: -1, 0 or 1 in byte-wise lexicographic order.
RECURSIVE Compare(_, _)
Compare(a, b) ==
    IF Len(a) = 0 THEN (IF Len(b) = 0 THEN 0 ELSE -1)
    ELSE IF Len(b) = 0 THEN 1
    ELSE IF a[1] < b[1] THEN -1
    ELSE IF a[1] > b[1] THEN 1
    ELSE Compare(Tail(a), Tail(b))

\* strings.ToLower on ASCII names.
ToLower(a) ==
    [j \in 1 .. Len(a) |-> IF a[j] >= 65 /\ a[j] <= 90 THEN a[j] + 32 ELSE a[j]]

\* strings.Contains(a, "g2").
ContainsG2(a) == \E j \in 1 .. (Len(a) - 1) : a[j] = 103 /\ a[j + 1] = 50

\* A faulty variant of CompareFold: the case of the letters counts.
CompareCase(a, b) == Compare(a, b)

\* The comparison given to slices.SortFunc (part_002 line 119).
CompareFold(a, b) == Compare(ToLower(a), ToLower(b))

\* slices.SortFunc on a slice of at most 12 elements is an insertion sort:
\* each element moves left while it compares less than its left neighbour.
RECURSIVE InsertSorted(_, _)
InsertSorted(s, x) ==
    IF Len(s) = 0 \/ CompareFold(x, s[Len(s)]) >= 0
    THEN Append(s, x)
    ELSE Append(InsertSorted(SubSeq(s, 1, Len(s) - 1), x), s[Len(s)])

RECURSIVE SortFunc(_)
SortFunc(s) ==
    IF Len(s) = 0 THEN <<>>
    ELSE InsertSorted(SortFunc(SubSeq(s, 1, Len(s) - 1)), s[Len(s)])

(***************************************************************************)
(* Format B input files.                                                   *)
(***************************************************************************)
Block48(v) == EncodeLE(v, Fp48Size)
PointB(x, y) == Block48(x) \o Block48(y)
CountB(c) == EncodeLE(c, CountSize)

SampleB(kind) ==
    CASE kind = "two"   ->
           FileRec(TRUE, CountB(2) \o PointB(1, 2) \o PointB(3, 4))
      [] kind = "one"   ->
           FileRec(TRUE, CountB(1) \o PointB(5, 6) \o PointB(7, 8))
      [] kind = "three" ->
           FileRec(TRUE, CountB(3) \o PointB(9, 10) \o PointB(11, 12)
                           \o PointB(0, 1))
      [] kind = "zero"  ->
           FileRec(TRUE, CountB(0))
      [] kind = "short_g1" ->
           FileRec(TRUE, CountB(2) \o PointB(1, 2) \o Block48(3))
      [] kind = "over_modulus" ->
           FileRec(TRUE, CountB(1) \o Block48(1) \o Ones(Fp48Size))
      [] kind = "short_count" ->
           FileRec(TRUE, SubSeq(CountB(1), 1, CountSize - 1))
      [] kind = "g2"    ->
           FileRec(TRUE, Block48(1) \o Block48(2) \o Block48(3) \o Block48(4))
      [] kind = "g2_other" ->
           FileRec(TRUE, Block48(5) \o Block48(6) \o Block48(7) \o Block48(8)
                           \o Zeros(2))
      [] kind = "g2_short" ->
           FileRec(TRUE, Block48(1) \o Block48(2) \o Block48(3))
      [] kind = "g2_over_modulus" ->
           FileRec(TRUE, Block48(1) \o Block48(2) \o Ones(Fp48Size)
                           \o Block48(4))
      [] OTHER          ->
           FileRec(FALSE, <<>>)

\* The file names of the sample directories: "a", "B", "b", "G2", "g2x".
NamesB == {<<97>>, <<66>>, <<98>>, <<71, 50>>, <<103, 50, 120>>}

\* What a sample file holds unless the directory replaces it.
DefaultKindB(name) ==
    CASE name = <<97>>  -> "two"
      [] name = <<66>>  -> "one"
      [] name = <<98>>  -> "three"
      [] name = <<71, 50>> -> "g2"
      [] OTHER          -> "g2_other"

BadKindsB ==
    {"zero", "short_g1", "over_modulus", "short_count", "g2_short",
     "g2_over_modulus", "unreadable"}

NoRepeat(s) == \A p, q \in 1 .. Len(s) : s[p] = s[q] => p = q

\* The format B directories: up to MaxFiles of the sample names in any
\* listing order, at most one of them holding one of BadKindsB; and a path
\* that does not exist.
DirsB ==
    LET listings == {s \in SeqsUpTo(NamesB, MaxFiles) : NoRepeat(s)}
    IN  {[exists |-> TRUE, names |-> s, badName |-> <<>>, badKind |-> ""] :
            s \in listings}
        \cup UNION {{[exists |-> TRUE, names |-> s, badName |-> s[j],
                       badKind |-> b] : j \in 1 .. Len(s), b \in BadKindsB} :
                     s \in listings}
        \cup {[exists |-> FALSE, names |-> <<>>, badName |-> <<>>,
               badKind |-> ""]}

FileB(d, name) ==
    SampleB(IF name = d.badName THEN d.badKind ELSE DefaultKindB(name))

(***************************************************************************)
(* Format B: aleo.TranslateBls12377SRS.                                    *)
(***************************************************************************)
\* part_002 line 38: the loop of aleo.readG1Points goes on.
MorePointsB(turn, count) == turn < count

\* One turn of the loop of aleo.readG1Points: the point read at position at.
readG1PointB(data, at) ==
    LET x == extract48ByteFieldElement(data, at)
        y == extract48ByteFieldElement(data, x.pos)
    IN  IF x.err # Nil THEN [err |-> "failed to read x-coordinate",
                             point |-> ZeroG1, pos |-> x.pos]
        ELSE IF y.err # Nil THEN [err |-> "failed to read y-coordinate",
                                  point |-> ZeroG1, pos |-> y.pos]
        ELSE [err |-> Nil, point |-> G1Affine(x.val, y.val), pos |-> y.pos]

\* aleo.readG2SetupFile lines 71-94 on the bytes of the file.
readG2PointB(data) ==
    LET x1 == extract48ByteFieldElement(data, 0)
        x2 == extract48ByteFieldElement(data, x1.pos)
        y1 == extract48ByteFieldElement(data, x2.pos)
        y2 == extract48ByteFieldElement(data, y1.pos)
        bad(e) == [err |-> e, point |-> ZeroG2("B"), pos |-> 0]
    IN  IF x1.err # Nil THEN bad("failed to read x-coordinate c0")
        ELSE IF x2.err # Nil THEN bad("failed to read x-coordinate c1")
        ELSE IF y1.err # Nil THEN bad("failed to read y-coordinate c0")
        ELSE IF y2.err # Nil THEN bad("failed to read y-coordinate c1")
        ELSE [err |-> Nil,
              point |-> G2Affine(E2(x1.val, x2.val), E2(y1.val, y2.val)),
              pos |-> y2.pos]

\* Lines 103-122: os.ReadDir, the new SRS with the generators, the sort of
\* the entries, the loop's first turn.
BStart ==
    /\ reader = "B" /\ pc = "start"
    /\ IF ~setupDir.exists
       THEN /\ ret' = ReturnError(reader, "failed to read setup directory")
            /\ pc' = "done"
            /\ UNCHANGED <<files, srs>>
       ELSE /\ files' = SortFunc(setupDir.names)
            /\ srs' = NewSRS("B")
            /\ pc' = IF Len(setupDir.names) = 0 THEN "lines" ELSE "open"
            /\ ret' = ret
    /\ k' = 1
    /\ UNCHANGED <<reader, setupDir, chunkFiles, open, fd, pos, meta, n, i,
                   err, failed, g2Writes, log, buf, elem>>

\* Lines 129-133 and os.Open of readG2SetupFile or readG1SetupFile.
BOpen ==
    /\ reader = "B" /\ pc = "open"
    /\ IF FileB(setupDir, files[k]).perm
       THEN /\ open' = open \cup {files[k]}
            /\ fd' = files[k]
            /\ pos' = 0
            /\ pc' = IF ContainsG2(ToLower(files[k])) THEN "g2" ELSE "count"
            /\ UNCHANGED <<err, failed, ret>>
       ELSE /\ err' = "failed to open setup file"
            /\ failed' = failed \cup {files[k]}
            /\ ret' = ReturnError(reader, "failed to read setup file")
            /\ pc' = "done"
            /\ UNCHANGED <<open, fd, pos>>
    /\ UNCHANGED <<reader, setupDir, files, chunkFiles, k, meta, n, i, srs,
                   g2Writes, log, buf, elem>>

\* readG2SetupFile lines 71-98, and lines 134-139 of the loop.
BReadG2File ==
    /\ reader = "B" /\ pc = "g2"
    /\ LET q == readG2PointB(FileB(setupDir, fd).data)
       IN  IF q.err # Nil
           THEN /\ FileFails(q.err)
                /\ UNCHANGED <<k, pos, srs, g2Writes>>
           ELSE /\ srs' = SetG2(srs, q.point)
                /\ g2Writes' = g2Writes + 1
                /\ pos' = q.pos
                /\ FileDone
                /\ UNCHANGED <<failed, ret>>
    /\ UNCHANGED <<reader, setupDir, files, chunkFiles, meta, n, i, log, buf,
                   elem>>

\* readG1SetupFile lines 24-28: the 8-byte little-endian number of points;
\* with no point to read the function returns.
BReadCount ==
    /\ reader = "B" /\ pc = "count"
    /\ LET rd == ReadFull(FileB(setupDir, fd).data, pos, CountSize)
       IN  IF rd.err # Nil
           THEN /\ FileFails("failed to read number of points")
                /\ UNCHANGED <<k, pos, n, i>>
           ELSE /\ n' = LittleEndianValue(rd.buf)
                /\ i' = 0
                /\ pos' = rd.pos
                /\ IF MorePointsB(0, LittleEndianValue(rd.buf))
                   THEN /\ pc' = "g1"
                        /\ UNCHANGED <<k, open, fd, err>>
                   ELSE FileDone
                /\ UNCHANGED <<failed, ret>>
    /\ UNCHANGED <<reader, setupDir, files, chunkFiles, meta, srs, g2Writes,
                   log, buf, elem>>

\* aleo.readG1Points lines 38-59: one turn of the loop; after the last turn
\* readG1SetupFile returns.
BReadG1Point ==
    /\ reader = "B" /\ pc = "g1"
    /\ LET p == readG1PointB(FileB(setupDir, fd).data, pos)
       IN  IF p.err # Nil
           THEN /\ FileFails("failed to read G1 points")
                /\ UNCHANGED <<k, pos, i, srs>>
           ELSE /\ srs' = AppendG1(srs, p.point)
                /\ pos' = p.pos
                /\ i' = i + 1
                /\ IF MorePointsB(i + 1, n)
                   THEN /\ pc' = "g1"
                        /\ UNCHANGED <<k, open, fd, err>>
                   ELSE FileDone
                /\ UNCHANGED <<failed, ret>>
    /\ UNCHANGED <<reader, setupDir, files, chunkFiles, meta, n, g2Writes,
                   log, buf, elem>>

\* TranslateBls12377SRS lines 142-146: the lines, the return.
BLines ==
    /\ reader = "B" /\ pc = "lines"
    /\ srs' = [srs EXCEPT !.Lines = <<PrecomputeLines(srs.G2[1]),
                                      PrecomputeLines(srs.G2[2])>>]
    /\ ret' = ReturnSRS(srs')
    /\ pc' = "done"
    /\ UNCHANGED <<reader, setupDir, files, chunkFiles, k, open, fd, pos, meta,
                   n, i, err, failed, g2Writes, log, buf, elem>>

InitB == \E d \in DirsB : InitRun("B", d)
NextB == BStart \/ BOpen \/ BReadG2File \/ BReadCount \/ BReadG1Point
            \/ BLines
SpecB == InitB /\ [][NextB]_vars

(***************************************************************************)
(* Format C file names: the regular expression and strconv.Atoi.           *)
(***************************************************************************)
IsDigit(c) == c >= 48 /\ c <= 57

\* The index of the last character of the run of digits that starts at p
\* (p - 1 when name[p] is no digit).
RECURSIVE DigitsEnd(_, _)
DigitsEnd(name, p) ==
    IF p <= Len(name) /\ IsDigit(name[p]) THEN DigitsEnd(name, p + 1)
    ELSE p - 1

\* Whether `\d+\.(\d+)\..*` matches from position p, and its group.
MatchAt(name, p) ==
    LET e1 == DigitsEnd(name, p)
        e2 == DigitsEnd(name, e1 + 2)
    IN  IF /\ e1 >= p
           /\ e1 + 1 <= Len(name) /\ name[e1 + 1] = 46
           /\ e2 >= e1 + 2
           /\ e2 + 1 <= Len(name) /\ name[e2 + 1] = 46
        THEN [ok |-> TRUE, group |-> SubSeq(name, e1 + 2, e2)]
        ELSE [ok |-> FALSE, group |-> <<>>]

\* fileRegexp.FindStringSubmatch(name): the leftmost match of the
\* unanchored expression; ok is len(matches) > 1 and group is matches[1].
RECURSIVE FindFrom(_, _)
FindFrom(name, p) ==
    IF p > Len(name) THEN [ok |-> FALSE, group |-> <<>>]
    ELSE IF MatchAt(name, p).ok THEN MatchAt(name, p)
    ELSE FindFrom(name, p + 1)

FindStringSubmatch(name) == FindFrom(name, 1)

RECURSIVE StripZeros(_)
StripZeros(ds) ==
    IF Len(ds) > 1 /\ ds[1] = 48 THEN StripZeros(Tail(ds)) ELSE ds

\* strconv.Itoa of a number that is not negative.
RECURSIVE Itoa(_)
Itoa(v) == IF v < 10 THEN <<48 + v>> ELSE Append(Itoa(v \div 10), 48 + (v % 10))

\* The number of a run of digits.
RECURSIVE Decimal(_)
Decimal(ds) ==
    IF Len(ds) = 0 THEN 0
    ELSE Decimal(SubSeq(ds, 1, Len(ds) - 1)) * 10 + (ds[Len(ds)] - 48)

\* The decimal digits of math.MaxInt64.
MaxInt64Digits ==
    <<57, 50, 50, 51, 51, 55, 50, 48, 51, 54, 56, 53, 52, 55, 55, 53, 56, 48,
      55>>

\* A Go int that strconv.Atoi returns is kept as its decimal numeral, the
\* digits without leading zeros (an int of 64 bits has up to 19 digits):
\* 5 is Itoa(5), "5", and 1234567890 is "1234567890".  Different ints have
\* different numerals, so a map[int]string is a function on numerals.
\* IntLeq(a, b) is a <= b for the ints of the numerals a and b.
IntLeq(a, b) ==
    \/ Len(a) < Len(b)
    \/ Len(a) = Len(b) /\ Compare(a, b) <= 0

\* strconv.Atoi on a run of digits: the int of the digits, or
\* math.MaxInt64 and a range error when the number is above math.MaxInt64.
Atoi(ds) ==
    LET sig == StripZeros(ds)
    IN  IF IntLeq(sig, MaxInt64Digits)
        THEN [err |-> Nil, val |-> sig]
        ELSE [err |-> "value out of range", val |-> MaxInt64Digits]

\* A faulty variant of Replaces: the lesser name is kept.
ReplacesByLesser(existingFile, name) == Compare(existingFile, name) > 0

\* Line 74: the file of the map is replaced by name.
Replaces(existingFile, name) == Compare(existingFile, name) < 0

\* Lines 61-76: one turn of the loop over the entries, on the map cf.
ScanOne(name, cf) ==
    LET m == FindStringSubmatch(name)
        c == Atoi(m.group)
    IN  IF ~m.ok THEN [err |-> Nil, chunkFiles |-> cf]
        ELSE IF c.err # Nil
        THEN [err |-> "failed to parse chunk number from filename",
              chunkFiles |-> cf]
        ELSE IF c.val \notin DOMAIN cf \/ Replaces(cf[c.val], name)
        THEN [err |-> Nil,
              chunkFiles |-> [x \in DOMAIN cf \cup {c.val} |->
                                 IF x = c.val THEN name ELSE cf[x]]]
        ELSE [err |-> Nil, chunkFiles |-> cf]

\* Lines 60-77: the turns for the entries lo..hi in order, stopping at the
\* first error (the range is halved to keep the evaluation shallow).
RECURSIVE ScanRange(_, _, _, _)
ScanRange(names, lo, hi, cf) ==
    IF lo > hi THEN [err |-> Nil, chunkFiles |-> cf]
    ELSE IF lo = hi THEN ScanOne(names[lo], cf)
    ELSE LET mid == (lo + hi) \div 2
             left == ScanRange(names, lo, mid, cf)
         IN  IF left.err # Nil THEN left
             ELSE ScanRange(names, mid + 1, hi, left.chunkFiles)

ScanFrom(names, j, cf) == ScanRange(names, j, Len(names), cf)

\* chunkFiles[chunkNum] of lines 83-84: whether the map has the key, and
\* the file of the key.
HasChunk(cf, chunkNum) == Itoa(chunkNum) \in DOMAIN cf
ChunkFile(cf, chunkNum) == cf[Itoa(chunkNum)]

\* The empty map[int]string.
EmptyMap == [x \in {} |-> <<>>]

\* Go's integer division, which truncates toward zero.
Quo(a, b) == IF a >= 0 THEN a \div b ELSE -((-a) \div b)

\* A faulty variant of calculateChunkSize: the trailing point of an upper
\* chunk is counted as a G1 point.
calculateChunkSizeAll(chunkNum, fileSize) ==
    IF chunkNum < ChunkHalfwayPoint
    THEN Quo(fileSize - HashSize, 4 * G1PointSize)
    ELSE Quo(fileSize - HashSize, G1PointSize)

\* celo.calculateChunkSize.
calculateChunkSize(chunkNum, fileSize) ==
    IF chunkNum < ChunkHalfwayPoint
    THEN Quo(fileSize - HashSize, 4 * G1PointSize)
    ELSE Quo(fileSize - HashSize, G1PointSize) - 1

\* A faulty variant of Refused: the point at infinity, for which the curve
\* test holds, is let through.
RefusedOffCurve(point) == ~IsOnCurveG1(point)

\* Line 166: the point is refused.
Refused(point) == IsInfinity(point) \/ ~IsOnCurveG1(point)

(***************************************************************************)
(* Format C input files.                                                   *)
(***************************************************************************)
BlockC(v) == EncodeLE(v, PointCoordinateSize)
PointC(x, y) == BlockC(x) \o BlockC(y)

\* "1.<chunk>.3.a": the file every sample directory holds for a chunk.
BaseName(chunk) == <<49, 46>> \o Itoa(chunk) \o <<46, 51, 46, 97>>

\* The G1 points a sample chunk file starts with.
PointsC(kind) ==
    CASE kind \in {"two", "ragged"} -> <<PointC(1, 0), PointC(7, 2)>>
      [] kind = "identity_second" -> <<PointC(1, 0), PointC(0, 0), PointC(7, 2)>>
      [] kind = "off_curve_first" -> <<PointC(1, 1), PointC(1, 0)>>
      [] kind = "no_generator"    -> <<PointC(7, 2)>>
      [] kind = "over_modulus"    ->
           <<PointC(1, 0), Ones(PointCoordinateSize) \o BlockC(0)>>
      [] kind \in {"hash_only", "no_g1", "empty", "unreadable"} -> <<>>
      [] OTHER                    -> <<PointC(1, 0)>>

\* The two G2 points that follow the G1 points of chunk 0.
G2RegionC(kind) ==
    CASE kind = "g2_mismatch"   -> PointC(0, BwModulus - 2) \o PointC(2, 5)
      [] kind = "g2_off_curve"  -> PointC(1, 1) \o PointC(2, 5)
      [] kind = "tau_off_curve" -> PointC(0, 2) \o PointC(1, 1)
      [] kind = "tau_infinity"  -> PointC(0, 2) \o PointC(0, 0)
      [] kind = "hash_only"     -> <<>>
      [] OTHER                  -> PointC(0, 2) \o PointC(2, 5)

\* A sample file of a chunk: the hash, the G1 points, the G2 points in chunk
\* 0, and what else the chunk holds, so that the file's size gives the number
\* of its G1 points (a quarter of a lower chunk; all but one point of an
\* upper chunk); a ragged file ends with 3 bytes more.
ContentC(chunk, kind) ==
    LET pts == PointsC(kind)
        head == Flatten(pts) \o (IF chunk = 0 THEN G2RegionC(kind) ELSE <<>>)
        size == IF chunk < ChunkHalfwayPoint
                THEN 4 * Len(pts) * G1PointSize
                ELSE (Len(pts) + 1) * G1PointSize
    IN  CASE kind = "unreadable" -> FileRec(FALSE, <<>>)
          [] kind = "empty"      -> FileRec(TRUE, <<>>)
          [] OTHER ->
               FileRec(TRUE, Zeros(HashSize) \o head
                               \o Zeros(IF size > Len(head)
                                        THEN size - Len(head) ELSE 0)
                               \o (IF kind = "ragged" THEN Zeros(3)
                                   ELSE <<>>))

\* Further file names: "1.1234567890.1.a", "1.2234567890.1.b", "1.5.7.b",
\* "1.5.10.a", "1.5.9.a", "1.05.9.a", "x1.5.2.a", "readme" and
\* "1.99999999999999999999.1.a".
ExtraNames ==
    {<<49, 46, 49, 50, 51, 52, 53, 54, 55, 56, 57, 48, 46, 49, 46, 97>>,
     <<49, 46, 50, 50, 51, 52, 53, 54, 55, 56, 57, 48, 46, 49, 46, 98>>,
     <<49, 46, 53, 46, 55, 46, 98>>,
     <<49, 46, 53, 46, 49, 48, 46, 97>>,
     <<49, 46, 53, 46, 57, 46, 97>>,
     <<49, 46, 48, 53, 46, 57, 46, 97>>,
     <<120, 49, 46, 53, 46, 50, 46, 97>>,
     <<114, 101, 97, 100, 109, 101>>,
     <<49, 46, 57, 57, 57, 57, 57, 57, 57, 57, 57, 57, 57, 57, 57, 57, 57, 57,
       57, 57, 57, 57, 46, 49, 46, 97>>}

\* os.ReadDir returns the entries sorted by file name (the names of a
\* directory differ from one another).
InsertByName(s, x) ==
    LET before == Cardinality({j \in 1 .. Len(s) : Compare(s[j], x) < 0})
    IN  SubSeq(s, 1, before) \o <<x>> \o SubSeq(s, before + 1, Len(s))

\* acc with s[lo], ..., s[hi] inserted one after the other (the range is
\* halved to keep the evaluation shallow).
RECURSIVE InsertRange(_, _, _, _)
InsertRange(acc, s, lo, hi) ==
    IF lo > hi THEN acc
    ELSE IF lo = hi THEN InsertByName(acc, s[lo])
    ELSE LET mid == (lo + hi) \div 2
             left == InsertRange(acc, s, lo, mid)
         IN  IF Len(left) = 0 THEN left
             ELSE InsertRange(left, s, mid + 1, hi)

SortByName(s) == InsertRange(<<>>, s, 1, Len(s))

BaseListing == SortByName([c \in 1 .. TotalChunks |-> BaseName(c - 1)])

InsertAll(s, xs) == InsertRange(s, xs, 1, Len(xs))

\* A format C directory: the base files of all chunks but `missing`, the
\* file of chunk `special` holding `kind`, and the files `extras`, listed
\* in sorted order, or first, or last (the order of discovery is left open).
DirC(special, kind, missing, extras, where) ==
    [exists |-> TRUE, special |-> special, kind |-> kind,
     missing |-> missing, extras |-> extras, where |-> where]

NoDirC == [exists |-> FALSE, special |-> -1, kind |-> "", missing |-> -1,
           extras |-> <<>>, where |-> "sorted"]

KindsG1C ==
    {"two", "ragged", "identity_second", "off_curve_first", "no_generator",
     "over_modulus", "hash_only", "empty", "unreadable"}
KindsG2C ==
    {"g2_mismatch", "g2_off_curve", "tau_off_curve", "tau_infinity", "no_g1"}

DirsC ==
    {DirC(-1, "", -1, <<>>, "sorted"), NoDirC}
    \cup {DirC(c, kd, -1, <<>>, "sorted") :
            c \in {0, TotalChunks - 1}, kd \in KindsG1C}
    \cup {DirC(c, kd, -1, <<>>, "sorted") :
            c \in {1, ChunkHalfwayPoint}, kd \in {"two", "identity_second"}}
    \cup {DirC(0, kd, -1, <<>>, "sorted") : kd \in KindsG2C}
    \cup {DirC(-1, "", m, <<>>, "sorted") : m \in {0, 17, TotalChunks - 1}}
    \cup {DirC(-1, "", 0, xs, w) :
            xs \in {s \in SeqsUpTo(ExtraNames, 2) : NoRepeat(s)},
            w \in {"sorted", "front", "back"}}
    \cup {DirC(-1, "", -1, <<x>>, "sorted") :
            x \in {<<49, 46, 53, 46, 49, 48, 46, 97>>,
                   <<120, 49, 46, 53, 46, 50, 46, 97>>}}

ListingC(d) ==
    LET base == IF d.missing < 0 THEN BaseListing
                ELSE SelectSeq(BaseListing,
                               LAMBDA nm : nm # BaseName(d.missing))
    IN  CASE d.where = "front" -> d.extras \o base
          [] d.where = "back"  -> base \o d.extras
          [] OTHER             -> InsertAll(base, d.extras)

\* What the base file of a chunk holds unless the directory replaces it: one
\* G1 point in the chunks looked at, none in the others.
DefaultKindC(chunk) ==
    IF chunk \in {0, 1, 5, ChunkHalfwayPoint, TotalChunks - 1}
    THEN "one" ELSE "hash_only"

\* The file of directory d with the given name: a further file holds two
\* points of chunk 5.
FileC(d, name) ==
    IF \E j \in 1 .. Len(d.extras) : d.extras[j] = name
    THEN ContentC(5, "two")
    ELSE LET chunk == Decimal(Atoi(FindStringSubmatch(name).group).val)
         IN  ContentC(chunk, IF chunk = d.special THEN d.kind
                             ELSE DefaultKindC(chunk))

(***************************************************************************)
(* Format C: celo.TranslateBw6761SRS.                                      *)
(***************************************************************************)
\* Lines 43-79: os.ReadDir, the new SRS, the choice of a file per chunk.
CStart ==
    /\ reader = "C" /\ pc = "start"
    /\ IF ~setupDir.exists
       THEN /\ ret' = ReturnError(reader, "failed to read setup directory")
            /\ pc' = "done"
            /\ UNCHANGED <<files, srs, chunkFiles>>
       ELSE LET sc == ScanFrom(ListingC(setupDir), 1, EmptyMap)
            IN  /\ files' = ListingC(setupDir)
                /\ srs' = NewSRS("C")
                /\ chunkFiles' = sc.chunkFiles
                /\ IF sc.err # Nil
                   THEN /\ ret' = ReturnError(reader, sc.err)
                        /\ pc' = "done"
                   ELSE /\ ret' = ret
                        /\ pc' = "chunk"
    /\ k' = 0
    /\ UNCHANGED <<reader, setupDir, open, fd, pos, meta, n, i, err, failed,
                   g2Writes, log, buf, elem>>

\* A faulty variant of MoreChunks: the loop ends one chunk early.
MoreChunksButLast(chunkNum) == chunkNum < TotalChunks - 1

\* Line 82: the loop over the chunks goes on.
MoreChunks(chunkNum) == chunkNum < TotalChunks

\* Line 133: the loop over the G1 points of a chunk goes on.
MorePointsC(turn, pointsToRead) == turn < pointsToRead

\* Lines 92-96: the loop goes to the next chunk, or ends.
NextChunk ==
    /\ k' = k + 1
    /\ pc' = IF MoreChunks(k + 1) THEN "chunk" ELSE "lines"

\* processChunk returns error e: the deferred Close runs, the caller prints
\* the error and goes on.
ChunkFails(e) ==
    /\ open' = open \ {fd}
    /\ fd' = NoFile
    /\ err' = e
    /\ failed' = failed \cup {ChunkFile(chunkFiles, k)}
    /\ log' = log \cup {"failed to process chunk"}
    /\ NextChunk

\* processChunk returns nil.
ChunkDone ==
    /\ open' = open \ {fd}
    /\ fd' = NoFile
    /\ err' = Nil
    /\ NextChunk

\* Lines 82-130: the chunk's file is looked up; processChunk opens it, takes
\* its size, seeks past the hash and computes the number of points to read.
COpen ==
    /\ reader = "C" /\ pc = "chunk"
    /\ IF ~HasChunk(chunkFiles, k)
       THEN /\ ret' = ReturnError(reader, "missing chunk file")
            /\ pc' = "done"
            /\ UNCHANGED <<k, open, fd, pos, n, i, err, failed, log>>
       ELSE LET file == FileC(setupDir, ChunkFile(chunkFiles, k))
            IN  IF ~file.perm
                THEN /\ err' = "failed to open file"
                     /\ failed' = failed \cup {ChunkFile(chunkFiles, k)}
                     /\ log' = log \cup {"failed to process chunk"}
                     /\ NextChunk
                     /\ UNCHANGED <<open, fd, pos, n, i, ret>>
                ELSE /\ open' = open \cup {ChunkFile(chunkFiles, k)}
                     /\ fd' = ChunkFile(chunkFiles, k)
                     /\ pos' = HashSize
                     /\ n' = calculateChunkSize(k, Len(file.data))
                     /\ i' = 0
                     /\ pc' = IF MorePointsC(0, calculateChunkSize(
                                                     k, Len(file.data)))
                              THEN "g1" ELSE "post"
                     /\ UNCHANGED <<k, err, failed, log, ret>>
    /\ UNCHANGED <<reader, setupDir, files, chunkFiles, meta, srs, g2Writes,
                   buf, elem>>

\* What one turn of the loop of lines 133-172 makes of the file from
\* position at: a point to append, an error to return, or a break.
readG1PointC(data, at, turn) ==
    LET rd == ReadFull(data, at, G1PointSize)
        x == extractBw6FieldElement(SubSeq(rd.buf, 1, PointCoordinateSize))
        y == extractBw6FieldElement(
                 SubSeq(rd.buf, PointCoordinateSize + 1, G1PointSize))
        point == G1Affine(x.val, y.val)
        out(what, e) == [what |-> what, err |-> e, point |-> ZeroG1,
                         pos |-> rd.pos]
    IN  IF rd.err = EOF /\ turn = 0
        THEN out("return", "unexpected EOF at beginning of file")
        ELSE IF rd.err # Nil THEN out("break", Nil)
        ELSE IF x.err # Nil THEN out("return", "failed to extract x coordinate")
        ELSE IF y.err # Nil THEN out("return", "failed to extract y coordinate")
        ELSE IF Refused(point)
        THEN out("return", "point is not on curve or infinity")
        ELSE [what |-> "append", err |-> Nil, point |-> point, pos |-> rd.pos]

\* Lines 133-172: one turn of the loop over the G1 points.
CReadG1Point ==
    /\ reader = "C" /\ pc = "g1"
    /\ LET p == readG1PointC(FileC(setupDir, fd).data, pos, i)
       IN  CASE p.what = "return" ->
                  /\ ChunkFails(p.err)
                  /\ UNCHANGED <<pos, i, srs>>
             [] p.what = "break" ->
                  /\ log' = log \cup {"Warning: Reached EOF"}
                  /\ pos' = p.pos
                  /\ pc' = "post"
                  /\ UNCHANGED <<k, open, fd, i, srs, err, failed>>
             [] OTHER ->
                  /\ srs' = AppendG1(srs, p.point)
                  /\ pos' = p.pos
                  /\ i' = i + 1
                  /\ pc' = IF MorePointsC(i + 1, n) THEN "g1" ELSE "post"
                  /\ UNCHANGED <<k, open, fd, err, failed, log>>
    /\ UNCHANGED <<reader, setupDir, files, chunkFiles, meta, n, ret,
                   g2Writes, buf, elem>>

\* A faulty variant of readG2PointsC: a generator that differs from the
\* expected one is let through.
readG2PointsCLenient(data, at) ==
    LET g == ReadFull(data, at, G2PointSize)
        gx == extractBw6FieldElement(SubSeq(g.buf, 1, PointCoordinateSize))
        gy == extractBw6FieldElement(
                  SubSeq(g.buf, PointCoordinateSize + 1, G2PointSize))
        t == ReadFull(data, g.pos, G2PointSize)
        tx == extractBw6FieldElement(SubSeq(t.buf, 1, PointCoordinateSize))
        ty == extractBw6FieldElement(
                  SubSeq(t.buf, PointCoordinateSize + 1, G2PointSize))
        bad(e, to) == [err |-> e, point |-> ZeroG2("C"), pos |-> to]
    IN  IF g.err # Nil THEN bad("failed to read G2 generator", g.pos)
        ELSE IF gx.err # Nil
        THEN bad("failed to parse G2 generator X coordinate", g.pos)
        ELSE IF gy.err # Nil
        THEN bad("failed to parse G2 generator Y coordinate", g.pos)
        ELSE IF ~IsOnCurveG2(G2Affine(gx.val, gy.val))
        THEN bad("G2 generator point is not on curve", g.pos)
        ELSE IF t.err # Nil THEN bad("failed to read tau G2", t.pos)
        ELSE IF tx.err # Nil
        THEN bad("failed to parse tau G2 X coordinate", t.pos)
        ELSE IF ty.err # Nil
        THEN bad("failed to parse tau G2 Y coordinate", t.pos)
        ELSE IF ~IsOnCurveG2(G2Affine(tx.val, ty.val))
        THEN bad("tau*G2 point is not on curve", t.pos)
        ELSE [err |-> Nil, point |-> G2Affine(tx.val, ty.val), pos |-> t.pos]

\* Lines 189-237 on the file from position at: the G2 generator, checked,
\* then tau*G2.
readG2PointsC(data, at) ==
    LET g == ReadFull(data, at, G2PointSize)
        gx == extractBw6FieldElement(SubSeq(g.buf, 1, PointCoordinateSize))
        gy == extractBw6FieldElement(
                  SubSeq(g.buf, PointCoordinateSize + 1, G2PointSize))
        g2Generator == G2Affine(gx.val, gy.val)
        t == ReadFull(data, g.pos, G2PointSize)
        tx == extractBw6FieldElement(SubSeq(t.buf, 1, PointCoordinateSize))
        ty == extractBw6FieldElement(
                  SubSeq(t.buf, PointCoordinateSize + 1, G2PointSize))
        tauG2 == G2Affine(tx.val, ty.val)
        bad(e, to) == [err |-> e, point |-> ZeroG2("C"), pos |-> to]
    IN  IF g.err # Nil THEN bad("failed to read G2 generator", g.pos)
        ELSE IF gx.err # Nil
        THEN bad("failed to parse G2 generator X coordinate", g.pos)
        ELSE IF gy.err # Nil
        THEN bad("failed to parse G2 generator Y coordinate", g.pos)
        ELSE IF ~IsOnCurveG2(g2Generator)
        THEN bad("G2 generator point is not on curve", g.pos)
        ELSE IF g2Generator # Gen2("C")
        THEN bad("G2 generator in file doesn't match expected generator",
                 g.pos)
        ELSE IF t.err # Nil THEN bad("failed to read tau G2", t.pos)
        ELSE IF tx.err # Nil
        THEN bad("failed to parse tau G2 X coordinate", t.pos)
        ELSE IF ty.err # Nil
        THEN bad("failed to parse tau G2 Y coordinate", t.pos)
        ELSE IF ~IsOnCurveG2(tauG2)
        THEN bad("tau*G2 point is not on curve", t.pos)
        ELSE [err |-> Nil, point |-> tauG2, pos |-> t.pos]

\* Lines 175-244: after the G1 points, the G2 points of chunk 0; then
\* processChunk returns.
CReadG2Points ==
    /\ reader = "C" /\ pc = "post"
    /\ IF k = 0
       THEN LET q == readG2PointsC(FileC(setupDir, fd).data, pos)
            IN  IF q.err # Nil
                THEN /\ ChunkFails(q.err)
                     /\ pos' = q.pos
                     /\ UNCHANGED <<srs, g2Writes>>
                ELSE /\ srs' = SetG2(srs, q.point)
                     /\ g2Writes' = g2Writes + 1
                     /\ pos' = q.pos
                     /\ ChunkDone
                     /\ UNCHANGED <<failed, log>>
       ELSE /\ ChunkDone
            /\ UNCHANGED <<pos, srs, g2Writes, failed, log>>
    /\ UNCHANGED <<reader, setupDir, files, chunkFiles, meta, n, i, ret, buf,
                   elem>>

\* A faulty variant of CLines: the lines of G2[1] are computed whatever the
\* point is.
CLinesOfBoth ==
    /\ reader = "C" /\ pc = "lines"
    /\ srs' = [srs EXCEPT !.Lines = <<PrecomputeLines(srs.G2[1]),
                                      PrecomputeLines(srs.G2[2])>>]
    /\ ret' = ReturnSRS(srs')
    /\ pc' = "done"
    /\ UNCHANGED <<reader, setupDir, files, chunkFiles, k, open, fd, pos, meta,
                   n, i, err, failed, g2Writes, log, buf, elem>>

\* Lines 98-104: the lines (of G2[1] unless it is the point at infinity),
\* the return.
CLines ==
    /\ reader = "C" /\ pc = "lines"
    /\ srs' = [srs EXCEPT !.Lines =
                  <<PrecomputeLines(srs.G2[1]),
                    IF ~IsInfinity(srs.G2[2])
                    THEN PrecomputeLines(srs.G2[2]) ELSE NoLines>>]
    /\ ret' = ReturnSRS(srs')
    /\ pc' = "done"
    /\ UNCHANGED <<reader, setupDir, files, chunkFiles, k, open, fd, pos, meta,
                   n, i, err, failed, g2Writes, log, buf, elem>>

InitC == \E d \in DirsC : InitRun("C", d)
NextC == CStart \/ COpen \/ CReadG1Point \/ CReadG2Points \/ CLines
SpecC == InitC /\ [][NextC]_vars

(***************************************************************************)
(* The command of src/main.go: ConstructSRS, which reads the format A      *)
(* transcripts of a directory whose entries are named transcript0.dat,     *)
(* transcript1.dat, ...; entries of other names are passed over.           *)
(***************************************************************************)
\* "transcript"
Transcript == <<116, 114, 97, 110, 115, 99, 114, 105, 112, 116>>

\* "transcript<j>.dat"
TranscriptName(j) == Transcript \o Itoa(j) \o <<46, 100, 97, 116>>

\* fileRegexp.MatchString(name) for `^transcript[0-9]{1,2}.dat$`: the word,
\* one or two digits, any one character but a line feed, and "dat" at the
\* end of the name.
MatchString(name) ==
    \E d \in {1, 2} :
        /\ Len(name) = Len(Transcript) + d + 4
        /\ SubSeq(name, 1, Len(Transcript)) = Transcript
        /\ \A j \in (Len(Transcript) + 1) .. (Len(Transcript) + d) :
              IsDigit(name[j])
        /\ name[Len(Transcript) + d + 1] # 10
        /\ SubSeq(name, Len(name) - 2, Len(name)) = <<100, 97, 116>>

\* Entry names: "t0", "transcript0.dat", "transcript1.dat",
\* "transcript0xdat", "transcript100.dat", "transcript0.data" and
\* "xtranscript0.dat".
NamesMain ==
    {<<116, 48>>, TranscriptName(0), TranscriptName(1),
     Transcript \o <<48, 120, 100, 97, 116>>,
     TranscriptName(100),
     Append(TranscriptName(0), 97),
     <<120>> \o TranscriptName(0)}

\* What the entries hold: sample files of format A.
KindsMain == {"first", "next", "short_g1", "unreadable"}

\* A path that does not exist.
NoDirMain == [exists |-> FALSE, names |-> <<>>, kinds |-> <<>>]

\* The directories given to ConstructSRS: up to MaxFiles entries of any of
\* the kinds, in the order of os.ReadDir (sorted by name); the 20
\* transcripts a run expects (the first one with the G2 points); and a path
\* that does not exist.
DirsMain ==
    UNION {{[exists |-> TRUE, names |-> nm, kinds |-> kd] :
               kd \in [1 .. Len(nm) -> KindsMain]} :
           nm \in {s \in SeqsUpTo(NamesMain, MaxFiles) :
                      \A j \in 1 .. (Len(s) - 1) :
                         Compare(s[j], s[j + 1]) < 0}}
    \cup {[exists |-> TRUE,
           names |-> SortByName([j \in 1 .. 20 |-> TranscriptName(j - 1)]),
           kinds |-> [j \in 1 .. 20 |-> IF j = 1 THEN "first" ELSE "next"]]}
    \cup {NoDirMain}

\* The file of directory d with the given name.
FileMain(d, name) ==
    SampleA(d.kinds[CHOOSE j \in 1 .. Len(d.names) : d.names[j] = name])

\* What ConstructSRS returns: an SRS and an error (no number of points).
ReturnMain(s, e) == [done |-> TRUE, srs |-> s, n |-> 0, err |-> e]

\* main.ReadG2Points from position at: 128 bytes skipped, then X.A0, X.A1,
\* Y.A0, Y.A1.
ReadG2Points(data, at) ==
    LET skip == ReadFull(data, at, G2SkipSize)
        x1 == extract32ByteFieldElement(data, skip.pos)
        x2 == extract32ByteFieldElement(data, x1.pos)
        y1 == extract32ByteFieldElement(data, x2.pos)
        y2 == extract32ByteFieldElement(data, y1.pos)
        bad(e) == [err |-> e, point |-> ZeroG2("Main"), pos |-> at]
    IN  IF skip.err # Nil THEN bad("failed to skip the first G2 point")
        ELSE IF x1.err # Nil THEN bad("failed to read x-coordinate part A0")
        ELSE IF x2.err # Nil THEN bad("failed to read x-coordinate part A1")
        ELSE IF y1.err # Nil THEN bad("failed to read y-coordinate part A0")
        ELSE IF y2.err # Nil THEN bad("failed to read y-coordinate part A1")
        ELSE [err |-> Nil,
              point |-> G2Affine(E2(x1.val, x2.val), E2(y1.val, y2.val)),
              pos |-> y2.pos]

\* Lines 145-160: os.ReadDir, the new SRS with the generators, the loop's
\* first turn.
MStart ==
    /\ reader = "Main" /\ pc = "start"
    /\ IF ~setupDir.exists
       THEN /\ ret' = ReturnMain(NilSRS(reader),
                                 "failed to read transcripts directory")
            /\ pc' = "done"
            /\ UNCHANGED <<files, srs>>
       ELSE /\ files' = setupDir.names
            /\ srs' = NewSRS("Main")
            /\ pc' = IF Len(setupDir.names) = 0 THEN "lines" ELSE "open"
            /\ ret' = ret
    /\ k' = 1
    /\ UNCHANGED <<reader, setupDir, chunkFiles, open, fd, pos, meta, n, i,
                   err, failed, g2Writes, log, buf, elem>>

\* ReadTranscriptFile returns error e: the deferred Close runs, and
\* ConstructSRS returns nil and the wrapped error (lines 167-169).
TranscriptFails(e) ==
    /\ open' = open \ {fd}
    /\ fd' = NoFile
    /\ err' = e
    /\ failed' = failed \cup {files[k]}
    /\ ret' = ReturnMain(NilSRS(reader), "failed to read transcript file")
    /\ pc' = "done"

\* Lines 160-166, one turn of the loop: an entry whose name does not match
\* is passed over; for the others ReadTranscriptFile (lines 49-53) opens
\* the file.
MOpen ==
    /\ reader = "Main" /\ pc = "open"
    /\ IF ~MatchString(files[k])
       THEN /\ k' = k + 1
            /\ pc' = IF k + 1 > Len(files) THEN "lines" ELSE "open"
            /\ UNCHANGED <<open, fd, pos, err, failed, ret>>
       ELSE IF FileMain(setupDir, files[k]).perm
       THEN /\ open' = open \cup {files[k]}
            /\ fd' = files[k]
            /\ pos' = 0
            /\ pc' = "meta"
            /\ UNCHANGED <<k, err, failed, ret>>
       ELSE /\ err' = "open"
            /\ failed' = failed \cup {files[k]}
            /\ ret' = ReturnMain(NilSRS(reader),
                                 "failed to read transcript file")
            /\ pc' = "done"
            /\ UNCHANGED <<k, open, fd, pos>>
    /\ UNCHANGED <<reader, setupDir, files, chunkFiles, meta, n, i, srs,
                   g2Writes, log, buf, elem>>

\* ReadTranscriptFile lines 55-58: ReadMetadata, the same binary.Read as in
\* aztec.readMetadata; then the loop of ReadG1Points is entered.
MReadMetadata ==
    /\ reader = "Main" /\ pc = "meta"
    /\ LET m == readMetadata(FileMain(setupDir, fd).data, pos)
       IN  IF m.err # Nil
           THEN /\ TranscriptFails("failed to read metadata")
                /\ UNCHANGED <<k, pos, meta, n, i>>
           ELSE /\ meta' = m.metadata
                /\ pos' = m.pos
                /\ n' = m.metadata.G1PointsN
                /\ i' = 0
                /\ pc' = IF 0 < m.metadata.G1PointsN THEN "g1" ELSE "post"
                /\ UNCHANGED <<k, open, fd, err, failed, ret>>
    /\ UNCHANGED <<reader, setupDir, files, chunkFiles, srs, g2Writes, log,
                   buf, elem>>

\* ReadG1Points lines 78-99: one turn of the loop, which reads a point as
\* aztec.readG1Points does.
MReadG1Point ==
    /\ reader = "Main" /\ pc = "g1"
    /\ LET p == readG1PointA(FileMain(setupDir, fd).data, pos)
       IN  IF p.err # Nil
           THEN /\ TranscriptFails("failed to read G1 points")
                /\ UNCHANGED <<k, pos, i, srs>>
           ELSE /\ srs' = AppendG1(srs, p.point)
                /\ pos' = p.pos
                /\ i' = i + 1
                /\ pc' = IF i + 1 < n THEN "g1" ELSE "post"
                /\ UNCHANGED <<k, open, fd, err, failed, ret>>
    /\ UNCHANGED <<reader, setupDir, files, chunkFiles, meta, n, g2Writes,
                   log, buf, elem>>

\* ReadTranscriptFile lines 64-72: the G2 points when the header announces
\* any, then the return; ConstructSRS lines 171-172.
MReadG2Points ==
    /\ reader = "Main" /\ pc = "post"
    /\ IF meta.G2PointsN # 0
       THEN LET q == ReadG2Points(FileMain(setupDir, fd).data, pos)
            IN  IF q.err # Nil
                THEN /\ TranscriptFails("failed to read G2 points")
                     /\ UNCHANGED <<k, pos, srs, g2Writes>>
                ELSE /\ srs' = SetG2(srs, q.point)
                     /\ g2Writes' = g2Writes + 1
                     /\ pos' = q.pos
                     /\ FileDone
                     /\ UNCHANGED <<failed, ret>>
       ELSE /\ FileDone
            /\ UNCHANGED <<pos, srs, g2Writes, failed, ret>>
    /\ UNCHANGED <<reader, setupDir, files, chunkFiles, meta, n, i, log, buf,
                   elem>>

\* ConstructSRS lines 174-182: the warning, the lines, the return.  The
\* loop has passed every entry, so numProcessed is the number of the
\* entries whose name matches.
MLines ==
    /\ reader = "Main" /\ pc = "lines"
    /\ LET numProcessed ==
               Cardinality({j \in 1 .. Len(files) : MatchString(files[j])})
       IN  log' = IF numProcessed # 20
                  THEN log \cup {"WARNING: expected 20 transcripts"} ELSE log
    /\ srs' = [srs EXCEPT !.Lines = <<PrecomputeLines(srs.G2[1]),
                                      PrecomputeLines(srs.G2[2])>>]
    /\ ret' = ReturnMain(srs', Nil)
    /\ pc' = "done"
    /\ UNCHANGED <<reader, setupDir, files, chunkFiles, k, open, fd, pos, meta,
                   n, i, err, failed, g2Writes, buf, elem>>

InitMain == \E d \in DirsMain : InitRun("Main", d)
NextMain == MStart \/ MOpen \/ MReadMetadata \/ MReadG1Point \/ MReadG2Points
               \/ MLines
SpecMain == InitMain /\ [][NextMain]_vars

(***************************************************************************)
(* The readers together.                                                   *)
(***************************************************************************)
Init == InitA \/ InitB \/ InitC \/ InitMain
Next == NextA \/ NextB \/ NextC \/ NextMain
Spec == Init /\ [][Next]_vars

(***************************************************************************)
(* The field-element decoders on their own: every coordinate block of the  *)
(* reader's width is given to the reader's decoder.                        *)
(***************************************************************************)
Blocks(size) == [1 .. size -> Byte]

InitDecode ==
    \E rdr \in {"A", "B", "C"} :
        /\ reader = rdr
        /\ buf \in Blocks(CASE rdr = "A" -> Fp32Size
                            [] rdr = "B" -> Fp48Size
                            [] OTHER     -> PointCoordinateSize)
        /\ pc = "decode"
        /\ setupDir = NoDir
        /\ files = <<>> /\ chunkFiles = <<>> /\ k = 0 /\ open = {}
        /\ fd = NoFile /\ pos = 0 /\ meta = NoMeta /\ n = 0 /\ i = 0
        /\ srs = NilSRS(rdr) /\ ret = Running(rdr) /\ err = Nil
        /\ failed = {} /\ g2Writes = 0 /\ log = {}
        /\ elem = NoElem

DecodeA ==
    /\ reader = "A" /\ pc = "decode"
    /\ elem' = [err |-> extract32ByteFieldElement(buf, 0).err,
                val |-> extract32ByteFieldElement(buf, 0).val]
    /\ pc' = "decoded"
    /\ UNCHANGED <<reader, setupDir, buf>>
    /\ UNCHANGED runVars

DecodeB ==
    /\ reader = "B" /\ pc = "decode"
    /\ elem' = [err |-> extract48ByteFieldElement(buf, 0).err,
                val |-> extract48ByteFieldElement(buf, 0).val]
    /\ pc' = "decoded"
    /\ UNCHANGED <<reader, setupDir, buf>>
    /\ UNCHANGED runVars

DecodeC ==
    /\ reader = "C" /\ pc = "decode"
    /\ elem' = extractBw6FieldElement(buf)
    /\ pc' = "decoded"
    /\ UNCHANGED <<reader, setupDir, buf>>
    /\ UNCHANGED runVars

NextDecode == DecodeA \/ DecodeB \/ DecodeC
SpecDecode == InitDecode /\ [][NextDecode]_vars

(***************************************************************************)
(* Properties of the readers.                                              *)
(***************************************************************************)
\* The directory given to the run can be listed.
DirExists == IF reader = "A" THEN setupDir # NoDir ELSE setupDir.exists

\* C1 (all readers): a run whose directory cannot be listed, or in which the
\* opening, reading, decoding or validation of an input file failed, returns
\* an error and no SRS: it never returns an SRS built from the files that
\* did succeed.
C1_FailureGivesNoSRS ==
    (ret.done /\ (~DirExists \/ failed # {}))
        => (ret.err # Nil /\ ret.srs.nil)

\* C2 as stated (all readers): once the SRS exists its G1 sequence starts
\* with the G1 generator, before any input file is read and in every
\* returned SRS.
C2_EveryReaderSeeds ==
    /\ ~srs.nil => (Len(srs.PkG1) >= 1 /\ srs.PkG1[1] = Gen1(reader))
    /\ (ret.done /\ ret.err = Nil)
           => (Len(ret.srs.PkG1) >= 1 /\ ret.srs.PkG1[1] = Gen1(reader))

\* No input file has been opened yet.
NoFileRead ==
    /\ open = {} /\ failed = {} /\ fd = NoFile
    /\ CASE reader = "C"    -> k = 0
         [] reader = "Main" -> \A j \in 1 .. (k - 1) : ~MatchString(files[j])
         [] OTHER           -> k <= 1

\* C2 (all readers): in formats A (TranslateBn254SRS and ConstructSRS) and
\* B the G1 sequence is seeded with the G1 generator before any input file
\* is read, so that element 0 of the sequence, and of every returned SRS,
\* is the generator and the points of the files follow it; in format C the
\* sequence is empty before any chunk file is read, so that its elements
\* are the points of the chunk files only.
C2_SeededBeforeFiles ==
    /\ (reader \in {"A", "B", "Main"} /\ ~srs.nil)
           => (Len(srs.PkG1) >= 1 /\ srs.PkG1[1] = Gen1(reader))
    /\ (reader \in {"A", "B", "Main"} /\ ret.done /\ ret.err = Nil)
           => (Len(ret.srs.PkG1) >= 1 /\ ret.srs.PkG1[1] = Gen1(reader))
    /\ (reader \in {"A", "B", "Main"} /\ ~srs.nil /\ pc = "open"
           /\ NoFileRead)
           => srs.PkG1 = <<Gen1(reader)>>
    /\ (reader = "C" /\ ~srs.nil /\ pc = "chunk" /\ NoFileRead)
           => srs.PkG1 = <<>>

\* A format C run has returned an SRS whose first G1 point is a point of a
\* chunk file and not the generator.
C2_Witness ==
    /\ reader = "C" /\ ret.done /\ ret.err = Nil
    /\ Len(ret.srs.PkG1) >= 1
    /\ ret.srs.PkG1[1] # Gen1("C")
    /\ ret.srs.PkG1[1] = G1Affine(7, 2)

\* A format A file is well formed: it can be read, its header is complete,
\* G1PointsN is not negative, and the G1 points and, when G2PointsN is not
\* zero, the G2 region the header announces are all there.
WellFormedA(file) ==
    /\ file.perm
    /\ Len(file.data) >= MetadataSize
    /\ LET g1n == Int32BE(SubSeq(file.data, 4 * Int32Size + 1, 5 * Int32Size))
           g2n == Int32BE(SubSeq(file.data, 5 * Int32Size + 1, 6 * Int32Size))
       IN  /\ g1n >= 0
           /\ Len(file.data) >= MetadataSize + g1n * 2 * Fp32Size
                                  + (IF g2n # 0 THEN G2SkipSize + 4 * Fp32Size
                                     ELSE 0)

\* The sum of G1PointsN over the first j files of the format A directory d.
RECURSIVE SumG1PointsN(_, _)
SumG1PointsN(d, j) ==
    IF j = 0 THEN 0
    ELSE SumG1PointsN(d, j - 1)
         + Int32BE(SubSeq(SampleA(d[j]).data, 4 * Int32Size + 1,
                          5 * Int32Size))

\* C3 (format A): a successful run over well-formed files returns an SRS
\* with 1 + (sum over the files of G1PointsN) G1 points, and that number as
\* its count.
C3_G1Count ==
    (/\ reader = "A" /\ ret.done /\ ret.err = Nil
     /\ \A j \in 1 .. Len(setupDir) : WellFormedA(SampleA(setupDir[j])))
        => /\ Len(ret.srs.PkG1) = 1 + SumG1PointsN(setupDir, Len(setupDir))
           /\ ret.n = Len(ret.srs.PkG1)

\* A run over files with G1PointsN 2, 1 and 0 has returned 4 G1 points.
C3_Witness ==
    /\ reader = "A" /\ ret.done /\ ret.err = Nil
    /\ setupDir = <<"first", "next", "empty">>
    /\ Len(ret.srs.PkG1) = 4
    /\ ret.n = 4

\* A name that does not match the expression carries no chunk number; the
\* number of a name cannot be parsed.
NoChunk == <<45, 49>>
BadChunk == <<45, 50>>

\* The chunk number a file name carries for the scan of the directory, as
\* its numeral.
ChunkOf(name) ==
    LET m == FindStringSubmatch(name)
    IN  IF ~m.ok THEN NoChunk
        ELSE IF Atoi(m.group).err # Nil THEN BadChunk
        ELSE Atoi(m.group).val

\* The chunk numbers of the names of a listing.
ChunksOf(names) == [j \in 1 .. Len(names) |-> ChunkOf(names[j])]

\* Some chunk number of 0 .. TotalChunks - 1 is carried by no name.
SomeChunkMissing(chunks) ==
    \E c \in 0 .. (TotalChunks - 1) :
        \A j \in 1 .. Len(chunks) : chunks[j] # Itoa(c)

\* C4 as stated (format C): when some chunk number of 0 .. 255 has no file
\* in the directory, the run fails with the missing-chunk error and returns
\* no SRS, whatever other files there are.
C4_MissingChunkError ==
    (/\ reader = "C" /\ ret.done /\ setupDir.exists
     /\ SomeChunkMissing(ChunksOf(files)))
        => (ret.err = "missing chunk file" /\ ret.srs.nil)

\* C4 (format C): when some chunk number of 0 .. 255 has no file in the
\* directory, the run fails and returns no SRS, whatever other files there
\* are: with the missing-chunk error when the chunk number of every matching
\* name can be parsed, and with the error of the parse otherwise.
C4_MissingChunkFails ==
    (/\ reader = "C" /\ ret.done /\ setupDir.exists
     /\ SomeChunkMissing(ChunksOf(files)))
        => /\ ret.srs.nil
           /\ ret.err = IF \A j \in 1 .. Len(files) :
                               ChunkOf(files[j]) # BadChunk
                        THEN "missing chunk file"
                        ELSE "failed to parse chunk number from filename"

\* A run on a directory without a file of chunk 17 has processed the chunks
\* before it and failed with the missing-chunk error.
C4_Witness ==
    /\ reader = "C" /\ ret.done
    /\ setupDir.exists /\ setupDir.missing = 17
    /\ k = 17
    /\ ret.err = "missing chunk file" /\ ret.srs.nil

\* C5 (format C): after the scan of the directory, whatever the order in
\* which the names were discovered, the map holds for every chunk number
\* carried by some name the lexicographically greatest of the names that
\* carry it, and nothing for the other chunk numbers.
C5_GreatestNameChosen ==
    (reader = "C" /\ pc = "chunk" /\ k = 0)
        => LET chunks == ChunksOf(files)
           IN  /\ \A j \in 1 .. Len(files) :
                     chunks[j] \notin {NoChunk, BadChunk}
                         => /\ chunks[j] \in DOMAIN chunkFiles
                            /\ Compare(files[j], chunkFiles[chunks[j]]) <= 0
               /\ \A c \in DOMAIN chunkFiles :
                     \E j \in 1 .. Len(files) :
                         files[j] = chunkFiles[c] /\ chunks[j] = c

\* "1.5.7.b" was discovered before "1.5.3.a" and is the file of chunk 5.
C5_Witness ==
    /\ reader = "C" /\ pc = "chunk"
    /\ setupDir.where = "front"
    /\ setupDir.extras = <<<<49, 46, 53, 46, 55, 46, 98>>>>
    /\ HasChunk(chunkFiles, 5)
    /\ ChunkFile(chunkFiles, 5) = <<49, 46, 53, 46, 55, 46, 98>>

\* The fields of a name of the documented pattern
\* [round].[chunk_number].[contribution_id].[contributor_address], with
\* round, chunk number and contribution id in decimal digits.
Documented(name) ==
    LET e1 == DigitsEnd(name, 1)
        e2 == DigitsEnd(name, e1 + 2)
        e3 == DigitsEnd(name, e2 + 2)
    IN  IF /\ e1 >= 1 /\ e1 + 1 <= Len(name) /\ name[e1 + 1] = 46
           /\ e2 >= e1 + 2 /\ e2 + 1 <= Len(name) /\ name[e2 + 1] = 46
           /\ e3 >= e2 + 2 /\ e3 + 1 < Len(name) /\ name[e3 + 1] = 46
           /\ Atoi(SubSeq(name, e1 + 2, e2)).err = Nil
           /\ Atoi(SubSeq(name, e2 + 2, e3)).err = Nil
        THEN [ok |-> TRUE,
              chunk |-> Atoi(SubSeq(name, e1 + 2, e2)).val,
              contribution |-> Atoi(SubSeq(name, e2 + 2, e3)).val]
        ELSE [ok |-> FALSE, chunk |-> NoChunk, contribution |-> NoChunk]

\* C6 (format C): when the names of the directory, listed in the order of
\* their names, follow the documented pattern, the file chosen for a chunk
\* number is the one of the numerically highest contribution id among the
\* files of that chunk number.
C6_LatestContributionChosen ==
    (/\ reader = "C" /\ pc = "chunk" /\ k = 0
     /\ setupDir.where = "sorted"
     /\ \A j \in 1 .. Len(files) : Documented(files[j]).ok)
        => \A j \in 1 .. Len(files) :
              LET f == Documented(files[j])
              IN  /\ f.chunk \in DOMAIN chunkFiles
                  /\ IntLeq(f.contribution,
                            Documented(chunkFiles[f.chunk]).contribution)

\* The file being read holds, at the read position, a whole G1 point whose
\* coordinates are below the modulus and which is the point at infinity or
\* lies off the curve.
BadPointAhead ==
    LET data == FileC(setupDir, fd).data
        x == LittleEndianValue(
                 SubSeq(data, pos + 1, pos + PointCoordinateSize))
        y == LittleEndianValue(
                 SubSeq(data, pos + PointCoordinateSize + 1,
                        pos + G1PointSize))
    IN  /\ Len(data) >= pos + G1PointSize
        /\ x < BwModulus /\ y < BwModulus
        /\ \/ x = 0 /\ y = 0
           \/ (y * y) % BwModulus # (x * x * x + BwModulus - 1) % BwModulus

\* Every G1 point of the SRS under construction lies on the curve and is
\* not the point at infinity.
OnlyCurvePoints ==
    \A j \in 1 .. Len(srs.PkG1) :
        /\ ~(srs.PkG1[j].X = 0 /\ srs.PkG1[j].Y = 0)
        /\ (srs.PkG1[j].Y * srs.PkG1[j].Y) % BwModulus
             = (srs.PkG1[j].X * srs.PkG1[j].X * srs.PkG1[j].X + BwModulus - 1)
                 % BwModulus

\* C7 (format C): a decoded G1 point that is the point at infinity or lies
\* off the curve is never appended to the G1 sequence; the processing of its
\* chunk ends with an error at that point, the file is closed and the run
\* is at the next chunk, so that no later point of the chunk is appended.
C7_BadPointsRefused ==
    [][/\ (reader = "C" /\ pc = "g1" /\ BadPointAhead)
              => /\ srs'.PkG1 = srs.PkG1
                 /\ err' = "point is not on curve or infinity"
                 /\ fd \in failed'
                 /\ fd' = NoFile /\ open' = {}
                 /\ k' = k + 1 /\ pc' # "g1"
       /\ reader = "C" => OnlyCurvePoints']_vars

\* The first point of chunk 255 was appended and its second point, the
\* point at infinity, ended the chunk with an error.
C7_Witness ==
    /\ reader = "C"
    /\ setupDir.special = TotalChunks - 1
    /\ setupDir.kind = "identity_second"
    /\ k = TotalChunks
    /\ err = "point is not on curve or infinity"
    /\ srs.PkG1[Len(srs.PkG1)] = G1Affine(1, 0)

\* The integer a coordinate block stands for in the convention of the
\* reader.
BlockValue(rdr, b) ==
    IF rdr = "A" THEN BigEndianValue(Reordered(b)) ELSE LittleEndianValue(b)

\* The modulus of the base field of the reader's curve.
Modulus(rdr) ==
    CASE rdr = "A" -> BnModulus [] rdr = "B" -> BlsModulus
      [] OTHER -> BwModulus

\* C8 (all readers): a coordinate block whose integer value is not below
\* the modulus of the field makes the decoder fail; it is not reduced and
\* accepted.
C8_OutOfRangeFails ==
    (pc = "decoded" /\ BlockValue(reader, buf) >= Modulus(reader))
        => elem.err # Nil

\* C9 (all readers): within one run the slot G2[1] of the verifying key is
\* assigned at most once.
C9_G2WrittenOnce == g2Writes <= 1

\* The name is one of a G2 file of format B.
IsG2Name(name) ==
    \E j \in 1 .. (Len(name) - 1) :
        name[j] \in {71, 103} /\ name[j + 1] = 50

\* The first count G1 points of a format B file, count being the number its
\* first 8 bytes hold in little-endian.
RECURSIVE PointsOfB(_, _)
PointsOfB(data, j) ==
    IF j = 0 THEN <<>>
    ELSE LET at == CountSize + (j - 1) * 2 * Fp48Size
         IN  Append(PointsOfB(data, j - 1),
                    G1Affine(LittleEndianValue(
                                 SubSeq(data, at + 1, at + Fp48Size)),
                             LittleEndianValue(
                                 SubSeq(data, at + Fp48Size + 1,
                                        at + 2 * Fp48Size))))

\* The G1 points of the first j files of the sequence names of directory d.
RECURSIVE ConcatB(_, _, _)
ConcatB(d, names, j) ==
    IF j = 0 THEN <<>>
    ELSE ConcatB(d, names, j - 1)
         \o (IF IsG2Name(names[j]) THEN <<>>
             ELSE PointsOfB(FileB(d, names[j]).data,
                            LittleEndianValue(
                                SubSeq(FileB(d, names[j]).data, 1,
                                       CountSize))))

\* C10 (format B): whatever the order of the listing, the files are
\* processed in ascending order of their lower-cased names, and the G1
\* sequence of a returned SRS is the generator followed by the points of the
\* G1 files in that order, count-many of each; the G2 files give none.
C10_G1InNameOrder ==
    (reader = "B" /\ ret.done /\ ret.err = Nil)
        => /\ Len(files) = Len(setupDir.names)
           /\ \A p \in 1 .. Len(setupDir.names) :
                 \E q \in 1 .. Len(files) : files[q] = setupDir.names[p]
           /\ \A p, q \in 1 .. Len(files) :
                 p < q => Compare(ToLower(files[p]), ToLower(files[q])) <= 0
           /\ ret.srs.PkG1
                = <<Gen1("B")>> \o ConcatB(setupDir, files, Len(files))

\* The listing "b", "G2", "a" gave the generator, the two points of "a" and
\* the three points of "b".
C10_Witness ==
    /\ reader = "B" /\ ret.done /\ ret.err = Nil
    /\ setupDir.names = <<<<98>>, <<71, 50>>, <<97>>>>
    /\ Len(ret.srs.PkG1) = 6
    /\ ret.srs.PkG1[2] = G1Affine(1, 2)

\* C11 as stated (all readers): no line data exists before the last input
\* file has been processed, and every returned SRS carries the line data of
\* G2[0] and the line data of the final G2[1].
C11_LinesOfBothSlots ==
    /\ ~ret.done => srs.Lines = <<NoLines, NoLines>>
    /\ (ret.done /\ ret.err = Nil)
           => /\ ret.srs.Lines[1] = PrecomputeLines(ret.srs.G2[1])
              /\ ret.srs.Lines[2] = PrecomputeLines(ret.srs.G2[2])

\* C11 (all readers): no line data exists before the last input file has
\* been processed; every returned SRS carries the line data of G2[0]; in
\* formats A and B it carries the line data of the final G2[1] too, and in
\* format C it does so when the final G2[1] is not the point at infinity,
\* and carries no line data for G2[1] when it is.
C11_LinesAfterFiles ==
    /\ ~ret.done => srs.Lines = <<NoLines, NoLines>>
    /\ (ret.done /\ ret.err = Nil)
           => /\ ret.srs.G2 = srs.G2
              /\ ret.srs.Lines[1] = <<ret.srs.G2[1]>>
              /\ ret.srs.Lines[2]
                   = IF reader = "C" /\ ret.srs.G2[2].X = 0
                        /\ ret.srs.G2[2].Y = 0
                     THEN <<>> ELSE <<ret.srs.G2[2]>>

\* A format C run in which chunk 0 gave the point at infinity as G2[1] has
\* returned an SRS with the lines of G2[0] and none for G2[1].
C11_Witness ==
    /\ reader = "C" /\ ret.done /\ ret.err = Nil
    /\ g2Writes = 1
    /\ IsInfinity(ret.srs.G2[2])
    /\ ret.srs.Lines[1] = PrecomputeLines(Gen2("C"))
    /\ ret.srs.Lines[2] = NoLines

\* The file being read holds, at the read position, a whole G2 point whose
\* coordinates are below the modulus, which lies on the curve and which is
\* not the G2 generator.
OtherGeneratorAhead ==
    LET data == FileC(setupDir, fd).data
        x == LittleEndianValue(
                 SubSeq(data, pos + 1, pos + PointCoordinateSize))
        y == LittleEndianValue(
                 SubSeq(data, pos + PointCoordinateSize + 1,
                        pos + G2PointSize))
    IN  /\ Len(data) >= pos + G2PointSize
        /\ x < BwModulus /\ y < BwModulus
        /\ \/ x = 0 /\ y = 0
           \/ (y * y) % BwModulus = (x * x * x + 4) % BwModulus
        /\ G2Affine(x, y) # Gen2("C")

\* C12 as stated (format C): when the first G2 point of chunk 0 lies on the
\* curve and differs from the G2 generator, the processing of the chunk does
\* not fail: the next G2 point is decoded and stored as G2[1].
C12_MismatchOnlyReported ==
    [][(reader = "C" /\ pc = "post" /\ k = 0 /\ OtherGeneratorAhead)
           => /\ fd \notin failed'
              /\ g2Writes' = g2Writes + 1]_vars

\* C12 (format C): when the first G2 point of chunk 0 lies on the curve and
\* differs from the G2 generator, processChunk returns an error at that
\* point: the next G2 point is not decoded and G2[1] is not written; and
\* G2[1] keeps its zero value, the point at infinity, for the rest of a run
\* in which the processing of chunk 0 failed.
C12_MismatchFailsChunk ==
    [][/\ (reader = "C" /\ pc = "post" /\ k = 0 /\ OtherGeneratorAhead)
              => /\ err'
                   = "G2 generator in file doesn't match expected generator"
                 /\ fd \in failed'
                 /\ srs' = srs
                 /\ g2Writes' = g2Writes
                 /\ fd' = NoFile /\ k' = 1
       /\ (reader = "C" /\ HasChunk(chunkFiles', 0)
           /\ ChunkFile(chunkFiles', 0) \in failed')
              => /\ g2Writes' = 0
                 /\ srs'.G2[2].X = 0 /\ srs'.G2[2].Y = 0
                 /\ ret'.srs.G2[2].X = 0 /\ ret'.srs.G2[2].Y = 0]_vars

\* The processing of chunk 0 has just ended with the mismatch error and
\* G2[1] is not written.
C12_Witness ==
    /\ reader = "C" /\ k = 1 /\ pc = "chunk"
    /\ err = "G2 generator in file doesn't match expected generator"
    /\ ChunkFile(chunkFiles, 0) \in failed
    /\ g2Writes = 0
    /\ IsInfinity(srs.G2[2])
    /\ Len(srs.PkG1) = 1

\* The number of G1 points of chunk c in a file of size bytes, with the
\* division rounded down.
ExpectedPoints(c, size) ==
    IF c < 128
    THEN (size - 64) \div (4 * 2 * PointCoordinateSize)
    ELSE ((size - 64) \div (2 * PointCoordinateSize)) - 1

\* C13 (format C): while a chunk file whose size gives a non-negative
\* number of G1 points is open, the number of points to read is
\* floor((S - 64) / (4 * point size)) below chunk 128 and
\* floor((S - 64) / point size) - 1 from chunk 128 on; the i-th point is
\* read at byte 64 + i * point size, and when the loop over the points ends
\* without an error exactly that many points have been read and appended.
C13_ChunkSize ==
    (reader = "C" /\ fd # NoFile)
        => LET size == Len(FileC(setupDir, fd).data)
               count == ExpectedPoints(k, size)
           IN  count >= 0
                   => /\ n = count
                      /\ pc \in {"g1", "post"}
                      /\ pc = "g1"
                            => /\ i < count
                               /\ pos = 64 + i * 2 * PointCoordinateSize
                               /\ pos + 2 * PointCoordinateSize <= size
                      /\ pc = "post"
                            => /\ i = count
                               /\ pos = 64 + count * 2 * PointCoordinateSize

\* The two G1 points of the file of chunk 255, whose size is 3 bytes more
\* than three points and the hash, have been read.
C13_Witness ==
    /\ reader = "C" /\ k = TotalChunks - 1 /\ pc = "post"
    /\ setupDir.special = TotalChunks - 1 /\ setupDir.kind = "ragged"
    /\ Len(FileC(setupDir, fd).data) = 64 + 3 * G1PointSize + 3
    /\ n = 2 /\ i = 2
    /\ Len(srs.PkG1) >= 2
    /\ srs.PkG1[Len(srs.PkG1)] = G1Affine(7, 2)

\* C14 (format A): the header takes the first 24 bytes of a file, so that
\* the G1 point of index i is read at offset 24 + i * (the size of a point,
\* 64 in the code).
C14_Header24Bytes ==
    (reader = "A" /\ pc = "g1") => pos = 24 + i * 2 * Fp32Size

\* The four words w0 w1 w2 w3 of a format A block in the order w3 w2 w1 w0,
\* the bytes of each word kept in place.
ReversedWords(b) ==
    SubSeq(b, 3 * WordSize + 1, 4 * WordSize)
        \o SubSeq(b, 2 * WordSize + 1, 3 * WordSize)
        \o SubSeq(b, WordSize + 1, 2 * WordSize)
        \o SubSeq(b, 1, WordSize)

\* C15 as stated (format A): the decoder returns the little-endian value of
\* the block's words in the order w3 w2 w1 w0, for every block of which
\* that value is below the modulus.
C15_LittleEndianWords ==
    (reader = "A" /\ pc = "decoded"
     /\ LittleEndianValue(ReversedWords(buf)) < BnModulus)
        => /\ elem.err = Nil
           /\ elem.val = LittleEndianValue(ReversedWords(buf))

\* C15 (format A): the decoder returns the big-endian value of the block's
\* words in the order w3 w2 w1 w0 (words reversed, bytes inside each word
\* kept in place), for every block of which that value is below the
\* modulus.
C15_BigEndianWords ==
    (reader = "A" /\ pc = "decoded"
     /\ BigEndianValue(ReversedWords(buf)) < BnModulus)
        => /\ elem.err = Nil
           /\ elem.val = BigEndianValue(ReversedWords(buf))

\* The block with words 01 10 00 00 was decoded to 9, the big-endian value
\* of 00 00 10 01; its little-endian value is 144.
C15_Witness ==
    /\ reader = "A" /\ pc = "decoded"
    /\ buf = <<0, 1, 1, 0, 0, 0, 0, 0>>
    /\ elem.err = Nil
    /\ elem.val = 9
    /\ LittleEndianValue(ReversedWords(buf)) = 144

\* The header field of index j (from 1) of a format A file.
HeaderField(file, j) ==
    Int32BE(SubSeq(file.data, (j - 1) * Int32Size + 1, j * Int32Size))

\* The TranscriptN values of the files of the format A directory d cover
\* 0 .. TotalTranscriptsN - 1, for the TotalTranscriptsN of every file.
TranscriptsCovered(d) ==
    \A j \in 1 .. Len(d) :
        \A t \in 0 .. (HeaderField(SampleA(d[j]), 2) - 1) :
            \E q \in 1 .. Len(d) : HeaderField(SampleA(d[q]), 1) = t

\* C16 (format A): a run that returns an SRS although the TranscriptN values
\* of its files do not cover 0 .. TotalTranscriptsN - 1 has reported it: it
\* has printed a warning.
C16_AbsenceReported ==
    (reader = "A" /\ ret.done /\ ret.err = Nil
     /\ ~TranscriptsCovered(setupDir))
        => log # {}

\* C17 (all readers): at every moment at most one input file is open, the
\* one being read; a file is opened only when no file is open; and no file
\* is open between two files, nor once the run has returned, with or
\* without an error.
C17_OneFileOpen ==
    [][/\ Cardinality(open') <= 1
       /\ open' # {} => (open' = {fd'} /\ ~ret'.done)
       /\ (open' # open /\ open' # {}) => open = {}
       /\ (fd' = NoFile \/ ret'.done \/ pc' \in {"open", "chunk", "lines"})
              => open' = {}]_vars

\* A format A run has returned an error after the second file, opened after
\* the first was closed, ran out of bytes within a G1 point; no file is
\* open.
C17_Witness ==
    /\ reader = "A" /\ ret.done /\ ret.err # Nil
    /\ setupDir = <<"first", "short_g1">>
    /\ k = 2
    /\ failed = {NameA(1)}
    /\ err = "failed to read G1 points"
    /\ Len(srs.PkG1) = 4
    /\ open = {}
=============================================================================
